---- MODULE Spec2Model ----
(***************************************************************************)
(* A model of the mon2y Monte-Carlo tree search engine:                    *)
(*   src/src/mon2y/game.rs   the game contract (State, Action, Actor)      *)
(*   src/src/mon2y/node.rs   Node, fully_explored, visit, best_pick        *)
(*   src/src/mon2y/tree.rs   Tree: selection, expansion, play_out,         *)
(*                           propagate_reward, iterate                     *)
(*   src/src/mon2y/mcts.rs   calculate_best_turn: workers and final policy *)
(*                                                                         *)
(* Rewards are f64 in the source.  The model keeps them as integers, twice *)
(* the source's value (1.0 is 2, -0.5 is -1), so that sums and comparisons *)
(* of means are exact.                                                     *)
(***************************************************************************)
EXTENDS Integers, Sequences, FiniteSets, TLC

VARIABLES
    game,           \* the game whose initial state was passed as `state`
    iterations,     \* the `iterations` argument
    thread_count,   \* the `thread_count` argument
    time_limit,     \* the `time_limit` argument: NoLimit, SomeLimit(d), or
                    \* AnyLimit where the clock is not followed
    clock,          \* std::time::Instant::now(), in ticks since the call
    timed_out,      \* whether a worker found time_started.elapsed() > time_limit
                    \* (never, when the `time_limit` argument is None)
    policy,         \* the `policy` argument, once the final match has read it
    nodes,          \* the heap of Expanded nodes (one per Arc), nodes[1] the root
    finished,       \* the AtomicUsize finished_iterations
    selected,       \* history: the calls of Tree::selection that returned a
                    \* Selection(path)
    wk,             \* each worker thread's position and locals, and the lock
                    \* guards it holds
    draw,           \* a call of weighted_random on its own: its argument, the
                    \* random number it drew and its result
    ucb,            \* best_pick followed child by child: the cached_ucb of
                    \* every node and the locals of the thread inside best_pick
    called,         \* a call of Node::expansion, best_pick or Tree::select_from
                    \* on its own: the function, the node and the outcome
    dpc,            \* the position of calculate_best_turn itself
    ret             \* the action calculate_best_turn returned

vars == <<game, iterations, thread_count, time_limit, called, draw, ucb, clock, timed_out, policy,
          nodes, finished, selected, wk, dpc, ret>>

-----------------------------------------------------------------------------
(* Bounds of the model *)

MaxIterations == 3
MaxThreads == 2

\* the greatest budget of a search whose workers run at the same time
MaxRacingIterations == 2

Workers == 1..MaxThreads

-----------------------------------------------------------------------------
(* The game contract, and the family of small games the search is run on.   *)
(* A state is a game together with the actions executed from its initial    *)
(* state.                                                                   *)

Player(id) == [kind |-> "Player", id |-> id, outcomes |-> <<>>]
GameAction(outcomes) == [kind |-> "GameAction", id |-> 0, outcomes |-> outcomes]

Win0 == <<2, -2>>
Win1 == <<-2, 2>>
Stalemate == <<-1, -1>>
Ongoing == <<0, 0>>

Pos(actor, terminal, reward, permitted) ==
    [actor |-> actor, terminal |-> terminal, reward |-> reward,
     permitted |-> permitted]

Leaf(reward) == Pos(Player(0), TRUE, reward, <<>>)

\* TwoPly: player 0 wins at once with a, or hands the move to player 1.
TwoPly ==
    (<<>> :> Pos(Player(0), FALSE, Ongoing, <<"a", "b">>)) @@
    (<<"a">> :> Leaf(Win0)) @@
    (<<"b">> :> Pos(Player(1), FALSE, Ongoing, <<"a", "b">>)) @@
    (<<"b", "a">> :> Leaf(Win1)) @@
    (<<"b", "b">> :> Leaf(Stalemate))

\* LastMove: player 1 to move, one move wins and the other draws.
LastMove ==
    (<<>> :> Pos(Player(1), FALSE, Ongoing, <<"a", "b">>)) @@
    (<<"a">> :> Leaf(Win1)) @@
    (<<"b">> :> Leaf(Stalemate))

\* Forced: a single permitted action in the initial state.
Forced ==
    (<<>> :> Pos(Player(0), FALSE, Ongoing, <<"a">>)) @@
    (<<"a">> :> Pos(Player(1), FALSE, Ongoing, <<"a", "b">>)) @@
    (<<"a", "a">> :> Leaf(Win0)) @@
    (<<"a", "b">> :> Leaf(Win1))

\* Dice: player 1 draws with b, or lets the game draw a or b with weights
\* 1 and 2.
Dice ==
    (<<>> :> Pos(Player(1), FALSE, Ongoing, <<"a", "b">>)) @@
    (<<"a">> :> Pos(GameAction(<< <<"a", 1>>, <<"b", 2>> >>), FALSE, Ongoing, <<>>)) @@
    (<<"a", "a">> :> Leaf(Win0)) @@
    (<<"a", "b">> :> Leaf(Win1)) @@
    (<<"b">> :> Leaf(Stalemate))

Games == [TwoPly |-> TwoPly, LastMove |-> LastMove, Forced |-> Forced, Dice |-> Dice]

GameNames == DOMAIN Games

\* Initial states a caller should not pass, and games that break the contract
\* of State::reward.
\* Over, Drawn: the initial state is terminal and permits no action.
Over == (<<>> :> Pos(Player(0), TRUE, Win1, <<>>))
Drawn == (<<>> :> Pos(Player(1), TRUE, Stalemate, <<>>))

\* ShortReward: two players, but reward() has an entry for player 0 only.
ShortReward ==
    (<<>> :> Pos(Player(1), FALSE, <<0>>, <<"a", "b">>)) @@
    (<<"a">> :> Pos(Player(0), FALSE, <<0>>, <<"a", "b">>)) @@
    (<<"a", "a">> :> Leaf(<<2>>)) @@
    (<<"a", "b">> :> Leaf(<<-2>>)) @@
    (<<"b">> :> Leaf(<<2>>))

\* PlayedOn: the state after a is terminal, a win of player 0, and still
\* permits an action (as the states of games/c4.rs do).
PlayedOn ==
    (<<>> :> Pos(Player(0), FALSE, Ongoing, <<"a", "b">>)) @@
    (<<"a">> :> Pos(Player(1), TRUE, Win0, <<"a">>)) @@
    (<<"a", "a">> :> Leaf(Win1)) @@
    (<<"b">> :> Leaf(Stalemate))

MisusedGames ==
    [Over |-> Over, Drawn |-> Drawn, ShortReward |-> ShortReward, PlayedOn |-> PlayedOn]

MisusedNames == DOMAIN MisusedGames

\* Gamble: a chance node below the root whose outcomes lead to states where
\* a player moves again, so that the search goes on below the chance node.
Gamble ==
    (<<>> :> Pos(Player(1), FALSE, Ongoing, <<"a", "b">>)) @@
    (<<"b">> :> Leaf(Stalemate)) @@
    (<<"a">> :> Pos(GameAction(<< <<"a", 1>>, <<"b", 2>> >>), FALSE, Ongoing, <<>>)) @@
    (<<"a", "a">> :> Pos(Player(0), FALSE, Ongoing, <<"a", "b">>)) @@
    (<<"a", "a", "a">> :> Leaf(Win0)) @@
    (<<"a", "a", "b">> :> Leaf(Win1)) @@
    (<<"a", "b">> :> Pos(Player(1), FALSE, Ongoing, <<"a">>)) @@
    (<<"a", "b", "a">> :> Leaf(Win1))

\* Deal: the initial state is a chance node, and a player moves after
\* either outcome.
Deal ==
    (<<>> :> Pos(GameAction(<< <<"a", 1>>, <<"b", 2>> >>), FALSE, Ongoing, <<>>)) @@
    (<<"a">> :> Pos(Player(0), FALSE, Ongoing, <<"a", "b">>)) @@
    (<<"a", "a">> :> Leaf(Win0)) @@
    (<<"a", "b">> :> Leaf(Win1)) @@
    (<<"b">> :> Pos(Player(1), FALSE, Ongoing, <<"a", "b">>)) @@
    (<<"b", "a">> :> Leaf(Win1)) @@
    (<<"b", "b">> :> Leaf(Stalemate))

\* Chain: below action a of the root the players have one action each, so
\* the tree has a node with one child that has one child.
Chain ==
    (<<>> :> Pos(Player(0), FALSE, Ongoing, <<"a", "b">>)) @@
    (<<"a">> :> Pos(Player(1), FALSE, Ongoing, <<"a">>)) @@
    (<<"a", "a">> :> Pos(Player(0), FALSE, Ongoing, <<"a">>)) @@
    (<<"a", "a", "a">> :> Leaf(Win0)) @@
    (<<"b">> :> Leaf(Stalemate))

\* Fork: both actions of the root lead to a state with two actions.
Fork ==
    (<<>> :> Pos(Player(0), FALSE, Ongoing, <<"a", "b">>)) @@
    (<<"a">> :> Pos(Player(1), FALSE, Ongoing, <<"a", "b">>)) @@
    (<<"a", "a">> :> Leaf(Win0)) @@
    (<<"a", "b">> :> Leaf(Win1)) @@
    (<<"b">> :> Pos(Player(1), FALSE, Ongoing, <<"a", "b">>)) @@
    (<<"b", "a">> :> Leaf(Win1)) @@
    (<<"b", "b">> :> Leaf(Stalemate))

DeepGames == [Gamble |-> Gamble, Deal |-> Deal, Chain |-> Chain, Fork |-> Fork]

DeepNames == DOMAIN DeepGames

InitialState(g) == [game |-> g, path |-> <<>>]

GameTable(g) ==
    IF g \in GameNames THEN Games[g]
    ELSE IF g \in DeepNames THEN DeepGames[g]
    ELSE MisusedGames[g]

Position(s) == GameTable(s.game)[s.path]

Terminal(s) == Position(s).terminal
NextActor(s) == Position(s).actor
Reward(s) == Position(s).reward
PermittedActions(s) == Position(s).permitted
Execute(action, s) == [game |-> s.game, path |-> Append(s.path, action)]

-----------------------------------------------------------------------------
(* Node.  `nodes` holds the Expanded nodes, one per Arc; a slot of a        *)
(* children map holds either the index of an Expanded node or a            *)
(* Placeholder with its weight.  A Placeholder Arc is never written to:    *)
(* insert_child puts a new Arc into the slot.                              *)

Root == 1

\* Option<u32>::None for a weight
NoWeight == 0

PlaceholderSlot(weight) == [exp |-> FALSE, id |-> 0, weight |-> weight]
ExpandedSlot(id) == [exp |-> TRUE, id |-> id, weight |-> NoWeight]

Range(seq) == {seq[i] : i \in DOMAIN seq}

Orders(S) ==
    {f \in [1..Cardinality(S) -> S] : \A i, j \in 1..Cardinality(S) : i # j => f[i] # f[j]}

OutcomeWeight(outcomes, action) ==
    (CHOOSE o \in Range(outcomes) : o[1] = action)[2]

\* An expansion that gives every node the children of a Player's node
create_player_node(state, weight) ==
    [state |-> state,
     children |-> [a \in Range(PermittedActions(state)) |-> PlaceholderSlot(NoWeight)],
     visit_count |-> 0,
     value_sum |-> 0,
     cached_fully_explored |-> "None",
     game_action |-> (NextActor(state).kind = "GameAction"),
     weight |-> weight]

create_expanded_node(state, weight) ==
    LET actor == NextActor(state)
        children ==
            IF actor.kind = "Player"
            THEN [a \in Range(PermittedActions(state)) |-> PlaceholderSlot(NoWeight)]
            ELSE [a \in {o[1] : o \in Range(actor.outcomes)} |->
                     PlaceholderSlot(OutcomeWeight(actor.outcomes, a))]
    IN  [state |-> state,
         children |-> children,
         visit_count |-> 0,
         value_sum |-> 0,
         cached_fully_explored |-> "None",
         game_action |-> (actor.kind = "GameAction"),
         weight |-> weight]

SlotVisitCount(h, slot) == IF slot.exp THEN h[slot.id].visit_count ELSE 0
SlotValueSum(h, slot) == IF slot.exp THEN h[slot.id].value_sum ELSE 0
SlotWeight(h, slot) ==
    LET w == IF slot.exp THEN h[slot.id].weight ELSE slot.weight
    IN  IF w = NoWeight THEN 1 ELSE w

\* A visit that leaves the cached fully-explored flag as it is
visit_keeping_flag(node, reward) ==
    [node EXCEPT !.visit_count = @ + 1, !.value_sum = @ + reward]

\* Node::visit (node.rs 107-127)
visit(node, reward) ==
    [node EXCEPT !.visit_count = @ + 1,
                 !.value_sum = @ + reward,
                 !.cached_fully_explored = "None"]

\* Node::visit statement by statement: node.rs 115, then node.rs 116-118
visit_counted(node) == [node EXCEPT !.visit_count = @ + 1]
visit_valued(node, reward) ==
    [node EXCEPT !.value_sum = @ + reward, !.cached_fully_explored = "None"]

insert_child(h, parent, action, child) ==
    Append([h EXCEPT ![parent].children[action] = ExpandedSlot(Len(h) + 1)], child)

\* Node::fully_explored on the Expanded node n of heap h: the set of
\* <<answer, heap with the caches it wrote>>, one per order in which the
\* iterator of `all` can visit the children (it stops at the first false).
RECURSIVE fully_explored(_, _), AllChildrenExplored(_, _, _)

\* An `all` that takes a Placeholder child for explored
AllExpandedExplored(h, n, rest) ==
    IF rest = {}
    THEN {<<TRUE, h>>}
    ELSE UNION {
           LET slot == h[n].children[a]
               first == IF slot.exp THEN fully_explored(h, slot.id) ELSE {<<TRUE, h>>}
           IN  UNION {IF o[1] THEN AllChildrenExplored(o[2], n, rest \ {a})
                              ELSE {<<FALSE, o[2]>>} : o \in first}
           : a \in rest}

fully_explored(h, n) ==
    IF h[n].cached_fully_explored # "None"
    THEN {<<h[n].cached_fully_explored = "True", h>>}
    ELSE LET outs == AllChildrenExplored(h, n, DOMAIN h[n].children)
         IN  {<<o[1], [o[2] EXCEPT ![n].cached_fully_explored =
                                      IF o[1] THEN "True" ELSE "False"]>> : o \in outs}

AllChildrenExplored(h, n, rest) ==
    IF rest = {}
    THEN {<<TRUE, h>>}
    ELSE UNION {
           LET slot == h[n].children[a]
               first == IF slot.exp THEN fully_explored(h, slot.id) ELSE {<<FALSE, h>>}
           IN  UNION {IF o[1] THEN AllChildrenExplored(o[2], n, rest \ {a})
                              ELSE {<<FALSE, o[2]>>} : o \in first}
           : a \in rest}

SlotFullyExplored(h, slot) ==
    IF slot.exp THEN fully_explored(h, slot.id) ELSE {<<FALSE, h>>}

\* The filter_map of best_pick over the children in `rest`: the set of
\* <<actions kept, heap>>.
RECURSIVE BestPickScan(_, _, _)
BestPickScan(h, n, rest) ==
    IF rest = {}
    THEN {<<{}, h>>}
    ELSE LET a == CHOOSE x \in rest : TRUE
         IN  UNION {
               {<<(IF o[1] THEN {} ELSE {a}) \cup r[1], r[2]>> :
                    r \in BestPickScan(o[2], n, rest \ {a})}
               : o \in SlotFullyExplored(h, h[n].children[a])}

\* The order sort_by leaves the scored children in.  A child with no visit
\* scores f64::INFINITY and precedes every visited one; under a GameAction
\* parent the score q + constant * u grows with weight / visit_count.  Under
\* a Player parent the order of the visited children depends on the
\* exploration constant and the random tiebreak, and any order is allowed.
\* A sort that leaves the scored children in any order
RankedAnyhow(h, n, order) == TRUE

Ranked(h, n, order) ==
    \A i, j \in DOMAIN order :
        i < j =>
            LET si == h[n].children[order[i]]
                sj == h[n].children[order[j]]
                vi == SlotVisitCount(h, si)
                vj == SlotVisitCount(h, sj)
            IN  /\ vj = 0 => vi = 0
                /\ (h[n].game_action /\ vi > 0 /\ vj > 0) =>
                       SlotWeight(h, si) * vj >= SlotWeight(h, sj) * vi

best_pick(h, n) ==
    UNION {{<<order, o[2]>> : order \in {r \in Orders(o[1]) : Ranked(o[2], n, r)}}
           : o \in BestPickScan(h, n, DOMAIN h[n].children)}

FullyExplored == [fully_explored |-> TRUE, path |-> <<>>]
Selection(path) == [fully_explored |-> FALSE, path |-> path]

\* A selection that stops at the first ranked child without descending
SelectLoopShallow(h, n, order, i) ==
    IF i > Len(order)
    THEN {<<FullyExplored, h>>}
    ELSE {<<Selection(<<order[i]>>), h>>}

\* Tree::select_from on node n: the set of <<Selection, heap>>.
RECURSIVE select_from(_, _), SelectLoop(_, _, _, _)

select_from(h, n) ==
    UNION {SelectLoop(o[2], n, o[1], 1) : o \in best_pick(h, n)}

SelectLoop(h, n, order, i) ==
    IF i > Len(order)
    THEN {<<FullyExplored, h>>}
    ELSE LET slot == h[n].children[order[i]]
         IN  IF slot.exp
             THEN UNION {IF o[1].fully_explored
                         THEN SelectLoop(o[2], n, order, i + 1)
                         ELSE {<<Selection(<<order[i]>> \o o[1].path), o[2]>>}
                         : o \in select_from(h, slot.id)}
             ELSE {<<Selection(<<order[i]>>), h>>}

\* weighted_random(items) when its rng draws `random`: the loop of
\* weighted_random.rs 7-12 from item i on, and the whole function
Unreachable == "unreachable!()"

TotalWeight(items) ==
    LET sum[i \in 0..Len(items)] == IF i = 0 THEN 0 ELSE sum[i - 1] + items[i][2]
    IN  sum[Len(items)]

\* The loop with >= for > in its test
RECURSIVE WeightedLoopInclusive(_, _, _, _)
WeightedLoopInclusive(items, random, i, current_weight) ==
    IF i > Len(items)
    THEN Unreachable
    ELSE IF current_weight + items[i][2] >= random
         THEN items[i][1]
         ELSE WeightedLoopInclusive(items, random, i + 1, current_weight + items[i][2])

RECURSIVE WeightedLoop(_, _, _, _)
WeightedLoop(items, random, i, current_weight) ==
    IF i > Len(items)
    THEN Unreachable
    ELSE IF current_weight + items[i][2] > random
         THEN items[i][1]
         ELSE WeightedLoop(items, random, i + 1, current_weight + items[i][2])

weighted_random(items, random) == WeightedLoop(items, random, 1, 0)

\* the items gen_range(0..total_weight) lets weighted_random return
WeightedDraws(items) ==
    {weighted_random(items, random) : random \in 0..(TotalWeight(items) - 1)}

\* Tree::play_out: the reward vectors of the terminal states a random
\* play-out from `state` can end in.
RECURSIVE play_out(_)

\* A play-out that goes on from a terminal state while it permits an action
play_past_end(state) ==
    IF Terminal(state) /\ PermittedActions(state) = <<>>
    THEN {Reward(state)}
    ELSE LET actor == NextActor(state)
             moves == IF actor.kind = "Player"
                      THEN Range(PermittedActions(state))
                      ELSE WeightedDraws(actor.outcomes)
         IN  UNION {play_out(Execute(a, state)) : a \in moves}

play_out(state) ==
    IF Terminal(state)
    THEN {Reward(state)}
    ELSE LET actor == NextActor(state)
             moves == IF actor.kind = "Player"
                      THEN Range(PermittedActions(state))
                      ELSE WeightedDraws(actor.outcomes)
         IN  UNION {play_out(Execute(a, state)) : a \in moves}

NoAction == "none"

-----------------------------------------------------------------------------
(* The final policy of calculate_best_turn.  `order` is the order in which *)
(* the root's HashMap yields its entries.                                  *)

\* value_sum / (visit_count, or f64::INFINITY when there is no visit), as a
\* fraction <<numerator, denominator>>
Ucb0Score(h, slot) ==
    IF SlotVisitCount(h, slot) > 0
    THEN <<SlotValueSum(h, slot), SlotVisitCount(h, slot)>>
    ELSE <<0, 1>>

ScoreLess(x, y) == x[1] * y[2] < y[1] * x[2]

\* picks.sort_by(|a, b| b.1.partial_cmp(&a.1)) is stable: picks[0] is the
\* first entry no other entry beats.
Ucb0Pick(h, order) ==
    LET score(i) == Ucb0Score(h, h[Root].children[order[i]])
        first == CHOOSE i \in DOMAIN order :
                    /\ \A k \in DOMAIN order : ~ScoreLess(score(i), score(k))
                    /\ \A k \in 1..(i - 1) : ScoreLess(score(k), score(i))
    IN  order[first]

\* Iterator::max_by over reward.iter().enumerate(): the index (from 0) of the
\* last greatest entry.
MaxRewardIndex(reward) ==
    (CHOOSE i \in DOMAIN reward :
        /\ \A k \in DOMAIN reward : reward[k] <= reward[i]
        /\ \A k \in (i + 1)..Len(reward) : reward[k] < reward[i]) - 1

IsWinningMove(h, slot) ==
    /\ slot.exp
    /\ Terminal(h[slot.id].state)
    /\ NextActor(h[Root].state).kind = "Player"
    /\ Reward(h[slot.id].state) # <<>>
    /\ MaxRewardIndex(Reward(h[slot.id].state)) = NextActor(h[Root].state).id

winning_moves(h, order) ==
    SelectSeq(order, LAMBDA a : IsWinningMove(h, h[Root].children[a]))

\* Iterator::max_by_key: the last entry with the greatest visit_count
MaxVisitsPick(h, order) ==
    LET visits(i) == SlotVisitCount(h, h[Root].children[order[i]])
        last == CHOOSE i \in DOMAIN order :
                    /\ \A k \in DOMAIN order : visits(k) <= visits(i)
                    /\ \A k \in (i + 1)..Len(order) : visits(k) < visits(i)
    IN  order[last]

MostVisitsPick(h, order) ==
    IF winning_moves(h, order) # <<>>
    THEN Head(winning_moves(h, order))
    ELSE MaxVisitsPick(h, order)

\* A policy that answers without looking at the root's children
UnkeyedTurn(pol, h, order) == NoAction

BestTurn(pol, h, order) ==
    IF pol = "Ucb0" THEN Ucb0Pick(h, order) ELSE MostVisitsPick(h, order)

-----------------------------------------------------------------------------
(* calculate_best_turn and its worker threads *)

NotRead == "not read"
Policies == {"Ucb0", "MostVisits"}

\* no lock asked for
NoLock == <<>>

\* time_limit: None, Some(d) with d in clock ticks, or unknown to a model
\* that does not follow the clock
NoLimit == [kind |-> "None", d |-> 0]
SomeLimit(d) == [kind |-> "Some", d |-> d]
AnyLimit == [kind |-> "any", d |-> 0]

Idle == [pc |-> "idle", time_started |-> 0, selection |-> FullyExplored,
         i |-> 0, cur |-> 0, result |-> <<>>, pw |-> NoWeight, reward |-> <<>>,
         j |-> 0, child |-> 0, held |-> <<>>, want |-> NoLock]

\* mcts.rs 53-54: the top of the loop reads the clock
AtLoopTop == [Idle EXCEPT !.pc = "select", !.time_started = clock]
Finished == [Idle EXCEPT !.pc = "done"]

\* mcts.rs 69-70: time_started.elapsed() > time_limit.unwrap_or(Duration::MAX)
Elapsed(l) ==
    IF time_limit = AnyLimit THEN BOOLEAN
    ELSE IF time_limit = NoLimit THEN {FALSE}
    ELSE {clock - l.time_started > time_limit.d}

\* mcts.rs 15-44: calculate_best_turn is called, the root is built
Called(names, limits) ==
    /\ game \in names
    /\ iterations \in 0..MaxIterations
    /\ thread_count \in 1..MaxThreads
    /\ time_limit \in limits
    /\ clock = 0
    /\ timed_out = FALSE
    /\ policy = NotRead
    /\ nodes = <<create_expanded_node(InitialState(game), NoWeight)>>
    /\ finished = 0
    /\ selected = 0
    /\ wk = [w \in Workers |-> Idle]
    /\ dpc = "start"
    /\ ret = NoAction

\* best_pick not followed child by child
NoUcb == [pc |-> "none", cache |-> <<>>, parent_visit_count |-> 0, todo |-> {},
          ucbs |-> <<>>, k |-> 0, calls |-> 0]

\* no call of weighted_random on its own
NoCall == [fn |-> "none", exp |-> FALSE, out |-> <<>>, panicked |-> FALSE]

NoDraw == [pc |-> "none", items |-> <<>>, random |-> 0, item |-> NoAction]

Init == Called(GameNames, {AnyLimit}) /\ draw = NoDraw /\ called = NoCall /\ ucb = NoUcb

RootKeys == DOMAIN nodes[Root].children

\* mcts.rs 35-40: a root with a single child is answered at once
ShortCircuit ==
    /\ dpc = "start"
    /\ Cardinality(RootKeys) = 1
    /\ dpc' = "returned"
    /\ ret' = CHOOSE a \in RootKeys : TRUE
    /\ UNCHANGED <<game, iterations, thread_count, time_limit, called, draw, ucb, clock, selected,
                   timed_out, policy, nodes, finished, wk>>

\* Spawn without the early return of mcts.rs 36-39
SpawnUnchecked(w) ==
    /\ w <= thread_count
    /\ wk[w].pc = "idle"
    /\ IF w = 1 THEN dpc = "start" ELSE dpc = "running" /\ wk[w - 1].pc = "done"
    /\ dpc' = "running"
    /\ wk' = [wk EXCEPT ![w] = AtLoopTop]
    /\ UNCHANGED <<game, iterations, thread_count, time_limit, called, draw, ucb, clock, selected,
                   timed_out, policy, nodes, finished, ret>>

\* mcts.rs 42-51 and 78-80: the tree is built and the workers are spawned.
\* The handles come out of a lazy iterator chain,
\*     (0..thread_count).map(|_| scope.spawn(..)).flat_map(|handle| handle.join()..)
\* so collect() spawns the first worker at once and each later worker only
\* when the worker before it has been joined.
Spawn(w) ==
    /\ w <= thread_count
    /\ wk[w].pc = "idle"
    /\ Cardinality(RootKeys) # 1
    /\ IF w = 1 THEN dpc = "start" ELSE dpc = "running" /\ wk[w - 1].pc = "done"
    /\ dpc' = "running"
    /\ wk' = [wk EXCEPT ![w] = AtLoopTop]
    /\ UNCHANGED <<game, iterations, thread_count, time_limit, called, draw, ucb, clock, selected,
                   timed_out, policy, nodes, finished, ret>>

\* The workers of section 5 of the specification, "parallel threads sharing
\* one tree": all thread_count workers run the loop of mcts.rs 53-74 at the
\* same time on the Tree, whose methods take &self for that purpose.
SpawnAll ==
    /\ dpc = "start"
    /\ Cardinality(RootKeys) # 1
    /\ dpc' = "running"
    /\ wk' = [w \in Workers |-> IF w <= thread_count THEN AtLoopTop ELSE Idle]
    /\ UNCHANGED <<game, iterations, thread_count, time_limit, called, draw, ucb, clock, selected,
                   timed_out, policy, nodes, finished, ret>>

\* tree.rs 209-219: Tree::iterate starts with the selection
Select(w) ==
    /\ dpc = "running"
    /\ wk[w].pc = "select"
    /\ \E o \in select_from(nodes, Root) :
          /\ nodes' = o[2]
          /\ wk' = [wk EXCEPT ![w] =
                       IF o[1].fully_explored
                       THEN [@ EXCEPT !.pc = "count", !.selection = o[1]]
                       ELSE [@ EXCEPT !.pc = "expand", !.selection = o[1], !.i = 1,
                                      !.cur = Root, !.result = <<Root>>]]
          /\ selected' = IF o[1].fully_explored THEN selected ELSE selected + 1
    /\ UNCHANGED <<game, iterations, thread_count, time_limit, called, draw, ucb, clock,
                   timed_out, policy, finished, dpc, ret>>

\* the loop of Tree::expansion goes on, or ends and leaves its locals
AfterStep(l) ==
    IF l.i > Len(l.selection.path)
    THEN [l EXCEPT !.pc = "play_out", !.i = 0, !.cur = 0]
    ELSE l

\* tree.rs 116-141 and, when the child is Expanded already, 150-151: one
\* turn of the loop of Tree::expansion up to the write of the child
ExpandRead(w) ==
    LET l == wk[w]
        action == l.selection.path[l.i]
    IN  /\ dpc = "running"
        /\ l.pc = "expand"
        /\ IF l.cur = 0
           THEN \* cur_node is a Placeholder: continue
                wk' = [wk EXCEPT ![w] = AfterStep([l EXCEPT !.i = @ + 1])]
           ELSE LET slot == nodes[l.cur].children[action]
                IN  IF slot.exp
                    THEN wk' = [wk EXCEPT ![w] =
                                   AfterStep([l EXCEPT !.i = @ + 1,
                                                       !.result = Append(@, l.cur),
                                                       !.cur = slot.id])]
                    ELSE wk' = [wk EXCEPT ![w] =
                                   [l EXCEPT !.pc = "insert", !.pw = slot.weight]]
        /\ UNCHANGED <<game, iterations, thread_count, time_limit, called, draw, ucb, clock, selected,
                       timed_out, policy, nodes, finished, dpc, ret>>

\* An expansion that drops the weight of the Placeholder it replaces
ExpandInsertUnweighted(w) ==
    LET l == wk[w]
        action == l.selection.path[l.i]
        expanded_child ==
            create_expanded_node(Execute(action, nodes[l.cur].state), NoWeight)
    IN  /\ dpc = "running"
        /\ l.pc = "insert"
        /\ nodes' = insert_child(nodes, l.cur, action, expanded_child)
        /\ wk' = [wk EXCEPT ![w] =
                     AfterStep([l EXCEPT !.pc = "expand", !.i = @ + 1,
                                         !.result = Append(@, l.cur),
                                         !.cur = 0, !.pw = NoWeight])]
        /\ UNCHANGED <<game, iterations, thread_count, time_limit, called, draw, ucb, clock, selected,
                       timed_out, policy, finished, dpc, ret>>

\* tree.rs 142-151: the Placeholder read before is expanded and installed
ExpandInsert(w) ==
    LET l == wk[w]
        action == l.selection.path[l.i]
        expanded_child ==
            create_expanded_node(Execute(action, nodes[l.cur].state), l.pw)
    IN  /\ dpc = "running"
        /\ l.pc = "insert"
        /\ nodes' = insert_child(nodes, l.cur, action, expanded_child)
        /\ wk' = [wk EXCEPT ![w] =
                     AfterStep([l EXCEPT !.pc = "expand", !.i = @ + 1,
                                         !.result = Append(@, l.cur),
                                         !.cur = 0, !.pw = NoWeight])]
        /\ UNCHANGED <<game, iterations, thread_count, time_limit, called, draw, ucb, clock, selected,
                       timed_out, policy, finished, dpc, ret>>

\* A play-out whose backpropagation starts below the root
PlayOutBelowRoot(w) ==
    LET l == wk[w]
    IN  /\ dpc = "running"
        /\ l.pc = "play_out"
        /\ \E reward \in play_out(nodes[l.result[Len(l.result)]].state) :
              wk' = [wk EXCEPT ![w] =
                        IF Len(l.result) >= 3
                        THEN [l EXCEPT !.pc = "propagate", !.reward = reward, !.j = 3]
                        ELSE [l EXCEPT !.pc = "count", !.result = <<>>]]
        /\ UNCHANGED <<game, iterations, thread_count, time_limit, called, draw, ucb, clock, selected,
                       timed_out, policy, nodes, finished, dpc, ret>>

\* tree.rs 222-232: the play-out from the state of the last node of the
\* expansion's result
PlayOut(w) ==
    LET l == wk[w]
    IN  /\ dpc = "running"
        /\ l.pc = "play_out"
        /\ \E reward \in play_out(nodes[l.result[Len(l.result)]].state) :
              wk' = [wk EXCEPT ![w] =
                        [l EXCEPT !.pc = "propagate", !.reward = reward, !.j = 2]]
        /\ UNCHANGED <<game, iterations, thread_count, time_limit, called, draw, ucb, clock, selected,
                       timed_out, policy, nodes, finished, dpc, ret>>

\* A backpropagation that credits the children of a chance node with the
\* reward of player 0
RewardForChanceToo(h, previous, reward) ==
    LET actor == NextActor(h[previous].state)
    IN  IF actor.id + 1 \in DOMAIN reward THEN reward[actor.id + 1] ELSE 0

\* the reward Tree::propagate_reward hands to visit for a child of `previous`
RewardFor(h, previous, reward) ==
    LET actor == NextActor(h[previous].state)
    IN  IF actor.kind = "Player"
        THEN IF actor.id + 1 \in DOMAIN reward THEN reward[actor.id + 1] ELSE 0
        ELSE 0

\* A backpropagation that credits a node with the reward of the player
\* acting in the node's own state
VisitOwnActor(w) ==
    LET l == wk[w]
        node == l.result[l.j]
    IN  /\ dpc = "running"
        /\ l.pc = "propagate"
        /\ nodes' = [nodes EXCEPT ![node] = visit(@, RewardFor(nodes, node, l.reward))]
        /\ wk' = [wk EXCEPT ![w] =
                     IF l.j = Len(l.result)
                     THEN [l EXCEPT !.pc = "count", !.result = <<>>,
                                    !.reward = <<>>, !.j = 0]
                     ELSE [l EXCEPT !.j = @ + 1]]
        /\ UNCHANGED <<game, iterations, thread_count, time_limit, called, draw, ucb, clock, selected,
                       timed_out, policy, finished, dpc, ret>>

\* tree.rs 188-206: one turn of the loop of Tree::propagate_reward
Visit(w) ==
    LET l == wk[w]
        node == l.result[l.j]
        previous_node == l.result[l.j - 1]
    IN  /\ dpc = "running"
        /\ l.pc = "propagate"
        /\ nodes' = [nodes EXCEPT ![node] =
                        visit(@, RewardFor(nodes, previous_node, l.reward))]
        /\ wk' = [wk EXCEPT ![w] =
                     IF l.j = Len(l.result)
                     THEN [l EXCEPT !.pc = "count", !.result = <<>>,
                                    !.reward = <<>>, !.j = 0]
                     ELSE [l EXCEPT !.j = @ + 1]]
        /\ UNCHANGED <<game, iterations, thread_count, time_limit, called, draw, ucb, clock, selected,
                       timed_out, policy, finished, dpc, ret>>

\* The loop of mcts.rs 53-74 without its break on the budget and on
\* FullyExplored (the counter saturates)
CountNeverBreaks(w) ==
    LET l == wk[w]
    IN  /\ dpc = "running"
        /\ l.pc = "count"
        /\ finished' = IF finished < MaxIterations + MaxThreads
                        THEN finished + 1 ELSE finished
        /\ \E elapsed \in Elapsed(l) :
              /\ timed_out' = (timed_out \/ elapsed)
              /\ wk' = [wk EXCEPT ![w] = IF elapsed THEN Finished ELSE AtLoopTop]
        /\ UNCHANGED <<game, iterations, thread_count, time_limit, called, draw, ucb, clock, selected,
                       policy, nodes, dpc, ret>>

\* The loop of mcts.rs 53-74 without its break on FullyExplored
CountIgnoringExplored(w) ==
    LET l == wk[w]
        current_iterations == finished
    IN  /\ dpc = "running"
        /\ l.pc = "count"
        /\ finished' = finished + 1
        /\ \E elapsed \in Elapsed(l) :
              /\ timed_out' = (timed_out \/ elapsed)
              /\ wk' = [wk EXCEPT ![w] =
                           IF current_iterations >= iterations \/ elapsed
                           THEN Finished
                           ELSE AtLoopTop]
        /\ UNCHANGED <<game, iterations, thread_count, time_limit, called, draw, ucb, clock, selected,
                       policy, nodes, dpc, ret>>

\* mcts.rs 64-73: the counter is incremented and the loop left or repeated
Count(w) ==
    LET l == wk[w]
        current_iterations == finished
    IN  /\ dpc = "running"
        /\ l.pc = "count"
        /\ finished' = finished + 1
        /\ \E elapsed \in Elapsed(l) :
              /\ timed_out' = (timed_out \/ elapsed)
              /\ wk' = [wk EXCEPT ![w] =
                           IF \/ current_iterations >= iterations
                              \/ l.selection.fully_explored
                              \/ elapsed
                           THEN Finished
                           ELSE AtLoopTop]
        /\ UNCHANGED <<game, iterations, thread_count, time_limit, called, draw, ucb, clock, selected,
                       policy, nodes, dpc, ret>>

AllJoined == \A w \in Workers : w <= thread_count => wk[w].pc = "done"

\* A final policy that answers with a default when the root has no children
FinishWithDefault ==
    /\ dpc = "running"
    /\ AllJoined
    /\ \E pol \in Policies :
          /\ policy' = pol
          /\ dpc' = "returned"
          /\ IF RootKeys = {}
             THEN ret' = ret
             ELSE \E order \in Orders(RootKeys) : ret' = BestTurn(pol, nodes, order)
    /\ UNCHANGED <<game, iterations, thread_count, time_limit, called, draw, ucb, clock, selected,
                   timed_out, nodes, finished, wk>>

\* mcts.rs 79-181: the workers are joined and the policy picks the action
Finish ==
    /\ dpc = "running"
    /\ AllJoined
    /\ \E pol \in Policies :
          /\ policy' = pol
          /\ IF RootKeys = {}
             THEN dpc' = "panicked" /\ ret' = ret
             ELSE /\ dpc' = "returned"
                  /\ \E order \in Orders(RootKeys) : ret' = BestTurn(pol, nodes, order)
    /\ UNCHANGED <<game, iterations, thread_count, time_limit, called, draw, ucb, clock, selected,
                   timed_out, nodes, finished, wk>>

\* one step of worker w
Worker(w) ==
    \/ Select(w)
    \/ ExpandRead(w)
    \/ ExpandInsert(w)
    \/ PlayOut(w)
    \/ Visit(w)
    \/ Count(w)

\* calculate_best_turn as mcts.rs runs it
Next ==
    \/ ShortCircuit
    \/ \E w \in Workers : Spawn(w)
    \/ \E w \in Workers : Worker(w)
    \/ Finish

Spec == Init /\ [][Next]_vars

\* calculate_best_turn with its workers running at the same time
NextParallel ==
    \/ ShortCircuit
    \/ SpawnAll
    \/ \E w \in Workers : Worker(w)
    \/ Finish

RacingInit == Init /\ iterations <= MaxRacingIterations

ParallelSpec == RacingInit /\ [][NextParallel]_vars

\* The same with the whole budget MaxIterations on one game (and on Forced,
\* which is answered at once): long enough for a worker to select again
\* after both children of a node were expanded
LongRaceInit ==
    /\ Called({"TwoPly", "Forced"}, {AnyLimit})
    /\ iterations = MaxIterations
    /\ draw = NoDraw /\ called = NoCall /\ ucb = NoUcb

LongRaceSpec == LongRaceInit /\ [][NextParallel]_vars

\* calculate_best_turn on the games with a chance node (and on Forced, which
\* is answered at once), with the whole budget
ChanceInit ==
    /\ Called({"Dice", "Forced", "Gamble", "Deal"}, {AnyLimit})
    /\ draw = NoDraw /\ called = NoCall /\ ucb = NoUcb

ChanceSpec == ChanceInit /\ [][Next]_vars

\* the same with concurrent workers
RacingChanceSpec ==
    (ChanceInit /\ iterations <= MaxRacingIterations) /\ [][NextParallel]_vars

\* calculate_best_turn with concurrent workers and the whole budget on Chain
\* (and on Forced, which is answered at once): long enough for a worker to
\* select while another one backpropagates below a node with a cached flag
DeepRaceInit ==
    /\ Called({"Chain", "Forced"}, {AnyLimit})
    /\ iterations = MaxIterations
    /\ thread_count = MaxThreads
    /\ draw = NoDraw /\ called = NoCall /\ ucb = NoUcb

DeepRaceSpec == DeepRaceInit /\ [][NextParallel]_vars

\* calculate_best_turn with one worker on games in which a move of the
\* initial state ends the game in a draw: LastMove and Gamble with player 1
\* to move, Chain with player 0 to move (and Forced, answered at once)
TiedInit ==
    /\ Called({"LastMove", "Gamble", "Chain", "Forced"}, {AnyLimit})
    /\ draw = NoDraw /\ called = NoCall /\ ucb = NoUcb

TiedSpec == TiedInit /\ [][Next]_vars

\* calculate_best_turn on any game, the misused ones included
LooseInit == Called(GameNames \cup MisusedNames, {AnyLimit}) /\ draw = NoDraw /\ called = NoCall /\ ucb = NoUcb

LooseSpec == LooseInit /\ [][Next]_vars

\* calculate_best_turn with the clock followed: time passes between any two
\* steps of a running search, and time_limit is None or Some(d)
MaxClock == 3
MaxTimeLimit == 2

TimeLimits == {NoLimit} \cup {SomeLimit(d) : d \in 1..MaxTimeLimit}

Tick ==
    /\ dpc = "running"
    /\ clock < MaxClock
    /\ clock' = clock + 1
    /\ UNCHANGED <<game, iterations, thread_count, time_limit, called, draw, ucb, timed_out, policy,
                   nodes, finished, selected, wk, dpc, ret>>

TimedInit == Called(GameNames, TimeLimits) /\ draw = NoDraw /\ called = NoCall /\ ucb = NoUcb

TimedNext == Next \/ Tick

TimedSpec == TimedInit /\ [][TimedNext]_vars

\* weighted_random called on its own, as test_weighted_game_action_play_out
\* calls it through play_out: on up to MaxOutcomes items with weights
\* 1..MaxWeight
MaxOutcomes == 3
MaxWeight == 3

OutcomeNames == <<"a", "b", "c", "d">>

ItemLists ==
    UNION {{[i \in 1..n |-> <<OutcomeNames[i], w[i]>>] : w \in [1..n -> 1..MaxWeight]}
           : n \in 1..MaxOutcomes}

WeightedInit ==
    /\ Called({"Dice"}, {AnyLimit})
    /\ iterations = 0
    /\ thread_count = 1
    /\ draw \in {[NoDraw EXCEPT !.pc = "called", !.items = items] : items \in ItemLists}
    /\ ucb = NoUcb /\ called = NoCall

\* weighted_random.rs 3-14
WeightedRandom ==
    /\ draw.pc = "called"
    /\ \E random \in 0..(TotalWeight(draw.items) - 1) :
          LET item == weighted_random(draw.items, random)
          IN  draw' = [draw EXCEPT !.pc = IF item = Unreachable
                                          THEN "unreachable"
                                          ELSE "returned",
                                   !.random = random,
                                   !.item = item]
    /\ UNCHANGED <<game, iterations, thread_count, time_limit, called, ucb, clock, timed_out,
                   policy, nodes, finished, selected, wk, dpc, ret>>

WeightedSpec == WeightedInit /\ [][WeightedRandom]_vars

\* best_pick on the root, followed child by child, while another worker
\* backpropagates.  A UCB value is kept as the operands it was computed
\* from (q = value_sum / (visit_count / weight),
\* u = sqrt(ln parent_visit_count / (visit_count / weight))), without the
\* random tiebreak; f64::INFINITY is a value of its own.
MaxPicks == 2

NoCachedUcb == [some |-> FALSE, ucb |-> [inf |-> FALSE, value_sum |-> 0, visit_count |-> 0,
                                          weight |-> 0, parent_visit_count |-> 0],
                value_sum |-> 0, visit_count |-> 0, parent_visit_count |-> 0]

Infinity == [inf |-> TRUE, value_sum |-> 0, visit_count |-> 0, weight |-> 0,
             parent_visit_count |-> 0]

\* node.rs 324-339: the score of a child read as (visit_count, value_sum)
Score(value_sum, visit_count, weight, parent_visit_count) ==
    IF visit_count = 0
    THEN Infinity
    ELSE [inf |-> FALSE, value_sum |-> value_sum, visit_count |-> visit_count,
          weight |-> weight, parent_visit_count |-> parent_visit_count]

\* A score that ignores the weights under a GameAction parent
compute_ucb_unweighted(h, game_action, slot, parent_visit_count) ==
    Score(IF game_action THEN 1 ELSE SlotValueSum(h, slot), SlotVisitCount(h, slot), 1,
          parent_visit_count)

\* node.rs 319-323: what best_pick scores for the child in `slot`
compute_ucb(h, game_action, slot, parent_visit_count) ==
    IF game_action
    THEN Score(1, SlotVisitCount(h, slot), SlotWeight(h, slot), parent_visit_count)
    ELSE Score(SlotValueSum(h, slot), SlotVisitCount(h, slot), 1, parent_visit_count)

\* x > y for the f64 values the scores x and y stand for, whatever the
\* exploration constant (> 0) is: q and u of x are not below those of y and
\* one of them is above
SurelyAbove(x, y) ==
    IF x.inf \/ y.inf
    THEN x.inf /\ ~y.inf
    ELSE LET ratio_ge == x.weight * y.visit_count >= y.weight * x.visit_count
             ratio_gt == x.weight * y.visit_count > y.weight * x.visit_count
             q_x == x.value_sum * x.weight * y.visit_count
             q_y == y.value_sum * y.weight * x.visit_count
             u_ge == \/ y.parent_visit_count = 1
                     \/ x.parent_visit_count >= y.parent_visit_count /\ ratio_ge
             u_gt == /\ x.parent_visit_count > 1
                     /\ \/ y.parent_visit_count = 1
                        \/ x.parent_visit_count >= y.parent_visit_count /\ ratio_gt
                        \/ x.parent_visit_count > y.parent_visit_count /\ ratio_ge
         IN  /\ q_x >= q_y
             /\ u_ge
             /\ q_x > q_y \/ u_gt

\* node.rs 365: the orders sort_by(|a, b| b.1.partial_cmp(&a.1)) can leave
\* the scored children in
Sorted(ucbs) ==
    {order \in Orders(Range(ucbs)) :
        \A i, j \in DOMAIN order : i < j => ~SurelyAbove(order[j][2], order[i][2])}

\* Node::cache_ucb
CachedUcb(value, value_sum, visit_count, parent_visit_count) ==
    [some |-> TRUE, ucb |-> value, value_sum |-> value_sum, visit_count |-> visit_count,
     parent_visit_count |-> parent_visit_count]

\* Node::cached_ucb: the entry is returned when the three statistics match
CacheHit(entry, value_sum, visit_count, parent_visit_count) ==
    /\ entry.some
    /\ entry.value_sum = value_sum
    /\ entry.visit_count = visit_count
    /\ entry.parent_visit_count = parent_visit_count

\* the tree and the threads of a search on Fork with the budget MaxIterations
\* after two iterations of worker 1, which expanded a and b, and a selection
\* of worker 2, which scored a and b, selected a path below a and has
\* installed its node: worker 1 is at the top of its loop and worker 2 is
\* about to backpropagate.
UcbTree(r1, r2, below) ==
    LET root == InitialState("Fork")
        h0 == <<create_expanded_node(root, NoWeight)>>
        h1 == insert_child(h0, Root, "a", create_expanded_node(Execute("a", root), NoWeight))
        h2 == [h1 EXCEPT ![Root] = visit(@, r1[1])]
        h3 == insert_child(h2, Root, "b", create_expanded_node(Execute("b", root), NoWeight))
        h4 == [h3 EXCEPT ![Root] = visit(@, r2[1]),
                         ![2].cached_fully_explored = "False",
                         ![3].cached_fully_explored = "False"]
    IN  insert_child(h4, 2, below,
                     create_expanded_node(Execute(below, h4[2].state), NoWeight))

UcbInit ==
    /\ game = "Fork"
    /\ iterations = MaxIterations
    /\ thread_count = MaxThreads
    /\ time_limit = AnyLimit
    /\ clock = 0
    /\ timed_out = FALSE
    /\ policy = NotRead
    /\ finished = 2
    /\ selected = 3
    /\ dpc = "running"
    /\ ret = NoAction
    /\ draw = NoDraw /\ called = NoCall
    /\ \E r1, r2 \in play_out(InitialState("Fork")) : \E below \in {"a", "b"} :
          /\ nodes = UcbTree(r1, r2, below)
          /\ \E reward \in play_out(nodes[2].state) :
                wk = [w \in Workers |->
                        IF w = 1 THEN AtLoopTop
                        ELSE IF w = 2
                             THEN [Idle EXCEPT !.pc = "propagate",
                                               !.selection = Selection(<<"a", below>>),
                                               !.result = <<Root, Root, 2>>,
                                               !.reward = reward, !.j = 2]
                             ELSE Idle]
    /\ ucb = [NoUcb EXCEPT
                 !.pc = "idle",
                 !.cache = [n \in DOMAIN nodes |->
                               IF n \in {2, 3}
                               THEN CachedUcb(Infinity, 0, 0, 2)
                               ELSE NoCachedUcb]]

\* node.rs 287-307: the children and the parent's visit count are read
BestPickStart ==
    /\ ucb.pc \in {"idle", "sorted"}
    /\ ucb.calls < MaxPicks
    /\ ucb' = [ucb EXCEPT !.pc = "score",
                          !.todo = DOMAIN nodes[Root].children,
                          !.parent_visit_count =
                              IF nodes[Root].visit_count > 1
                              THEN nodes[Root].visit_count ELSE 1,
                          !.ucbs = <<>>,
                          !.k = 0]
    /\ UNCHANGED <<game, iterations, thread_count, time_limit, called, draw, clock, timed_out,
                   policy, nodes, finished, selected, wk, dpc, ret>>

\* node.rs 309-351: one turn of the filter_map, under the child's read lock
BestPickScore ==
    /\ ucb.pc = "score"
    /\ \E action \in ucb.todo :
          LET slot == nodes[Root].children[action]
              after(l) == IF l.todo = {} THEN [l EXCEPT !.pc = "cache", !.k = 1] ELSE l
          IN  \E o \in SlotFullyExplored(nodes, slot) :
                /\ nodes' = o[2]
                /\ IF o[1]
                   THEN ucb' = after([ucb EXCEPT !.todo = @ \ {action}])
                   ELSE LET entry == IF slot.exp THEN ucb.cache[slot.id] ELSE NoCachedUcb
                            value ==
                                IF CacheHit(entry, SlotValueSum(nodes, slot),
                                            SlotVisitCount(nodes, slot),
                                            ucb.parent_visit_count)
                                THEN entry.ucb
                                ELSE compute_ucb(nodes, nodes[Root].game_action, slot,
                                                 ucb.parent_visit_count)
                        IN  ucb' = after([ucb EXCEPT !.todo = @ \ {action},
                                                     !.ucbs = Append(@, <<action, value>>)])
    /\ UNCHANGED <<game, iterations, thread_count, time_limit, called, draw, clock, timed_out,
                   policy, finished, selected, wk, dpc, ret>>

\* node.rs 353-366: one turn of the loop that caches the scores, then the
\* sort
BestPickCache ==
    /\ ucb.pc = "cache"
    /\ IF ucb.k > Len(ucb.ucbs)
       THEN \E order \in Sorted(ucb.ucbs) :
                ucb' = [ucb EXCEPT !.pc = "sorted", !.calls = @ + 1, !.ucbs = order]
       ELSE LET slot == nodes[Root].children[ucb.ucbs[ucb.k][1]]
                entry == CachedUcb(ucb.ucbs[ucb.k][2], SlotValueSum(nodes, slot),
                                   SlotVisitCount(nodes, slot), ucb.parent_visit_count)
            IN  ucb' = [ucb EXCEPT !.k = @ + 1,
                                   !.cache = IF slot.exp
                                             THEN [@ EXCEPT ![slot.id] = entry]
                                             ELSE @]
    /\ UNCHANGED <<game, iterations, thread_count, time_limit, called, draw, clock, timed_out,
                   policy, nodes, finished, selected, wk, dpc, ret>>

UcbNext ==
    \/ BestPickStart
    \/ BestPickScore
    \/ BestPickCache
    \/ \E w \in Workers : Visit(w)

UcbSpec == UcbInit /\ [][UcbNext]_vars

\* best_pick called as test_best_pick_weighted_visits calls it: on a chance
\* node built by hand whose two children are Expanded, carry the weights
\* they were created with and have Placeholder children; between the calls
\* the test visits a child.
MaxChildVisits == 2

RankTree(weight_a, weight_b) ==
    LET root == InitialState("Deal")
        h0 == <<create_expanded_node(root, NoWeight)>>
        h1 == insert_child(h0, Root, "a", create_expanded_node(Execute("a", root), weight_a))
    IN  insert_child(h1, Root, "b", create_expanded_node(Execute("b", root), weight_b))

RankInit ==
    /\ game = "Deal"
    /\ iterations = 0
    /\ thread_count = 1
    /\ time_limit = AnyLimit
    /\ clock = 0
    /\ timed_out = FALSE
    /\ policy = NotRead
    /\ finished = 0
    /\ selected = 0
    /\ dpc = "start"
    /\ ret = NoAction
    /\ draw = NoDraw /\ called = NoCall
    /\ wk = [w \in Workers |-> Idle]
    /\ \E weight_a, weight_b \in 1..MaxWeight : \E root_visits \in 0..MaxChildVisits :
          nodes = [RankTree(weight_a, weight_b) EXCEPT ![Root].visit_count = root_visits]
    /\ ucb = [NoUcb EXCEPT !.pc = "idle", !.cache = [n \in DOMAIN nodes |-> NoCachedUcb]]

\* node.rs 508-513: child_write.visit(0.0) between two calls of best_pick,
\* the Vec the call before returned is gone
RankVisit ==
    /\ ucb.pc \in {"idle", "sorted"}
    /\ \E action \in DOMAIN nodes[Root].children :
          LET child == nodes[Root].children[action].id
          IN  /\ nodes[child].visit_count < MaxChildVisits
              /\ nodes' = [nodes EXCEPT ![child] = visit(@, 0)]
    /\ ucb' = [ucb EXCEPT !.pc = "idle", !.ucbs = <<>>, !.k = 0]
    /\ UNCHANGED <<game, iterations, thread_count, time_limit, called, draw, clock,
                   timed_out, policy, finished, selected, wk, dpc, ret>>

RankNext ==
    \/ BestPickStart
    \/ BestPickScore
    \/ BestPickCache
    \/ RankVisit

RankSpec == RankInit /\ [][RankNext]_vars

\* Node::expansion, best_pick and Tree::select_from called on their own on a
\* node of a tree that is built by hand, as the tests of node.rs and tree.rs
\* build theirs.  The node is given by its slot in the children map (or is
\* the root); what was called, on which kind of node and with what outcome
\* is kept in `called`.  A panic ends the test.
ContractGames == {"TwoPly", "LastMove", "Dice", "Deal", "Fork"}

\* node.rs 177-191: Node::expansion on the node in `slot`: <<>> when it
\* panics ("Expanding an expanded node"), else the one node it returns
expansion(slot, action, parent_state) ==
    IF slot.exp
    THEN <<>>
    ELSE <<create_expanded_node(Execute(action, parent_state), slot.weight)>>

\* node.rs 287-298: best_pick on the node in `slot`; on a Placeholder it
\* returns vec![]
best_pick_on(h, slot) ==
    IF slot.exp THEN best_pick(h, slot.id) ELSE {<<<<>>, h>>}

\* tree.rs 56-66: Tree::select_from on the node in `slot`; an empty
\* best_pick is answered with Selection::FullyExplored
select_from_on(h, slot) ==
    UNION {IF o[1] = <<>>
           THEN {<<FullyExplored, o[2]>>}
           ELSE SelectLoop(o[2], slot.id, o[1], 1)
           : o \in best_pick_on(h, slot)}

\* the nodes of the tree: the root and whatever is in a children map
Slots(h) ==
    {ExpandedSlot(Root)} \cup
        UNION {{h[n].children[a] : a \in DOMAIN h[n].children} : n \in DOMAIN h}

ContractInit ==
    /\ game \in ContractGames
    /\ iterations = 0
    /\ thread_count = 1
    /\ time_limit = AnyLimit
    /\ clock = 0
    /\ timed_out = FALSE
    /\ policy = NotRead
    /\ finished = 0
    /\ selected = 0
    /\ dpc = "start"
    /\ ret = NoAction
    /\ draw = NoDraw
    /\ ucb = NoUcb
    /\ wk = [w \in Workers |-> Idle]
    /\ nodes = <<create_expanded_node(InitialState(game), NoWeight)>>
    /\ called = NoCall

\* child.expansion(action, &parent_state) on a child of node n; a node it
\* returns is installed with insert_child, as tree.rs 133-147 does
CallExpansion ==
    /\ ~called.panicked
    /\ \E n \in DOMAIN nodes : \E action \in DOMAIN nodes[n].children :
          LET slot == nodes[n].children[action]
              out == expansion(slot, action, nodes[n].state)
          IN  IF out = <<>>
              THEN /\ called' = [fn |-> "expansion", exp |-> slot.exp, out |-> <<>>,
                                 panicked |-> TRUE]
                   /\ nodes' = nodes
              ELSE /\ called' = [fn |-> "expansion", exp |-> slot.exp, out |-> <<>>,
                                 panicked |-> FALSE]
                   /\ nodes' = insert_child(nodes, n, action, out[1])
    /\ UNCHANGED <<game, iterations, thread_count, time_limit, draw, ucb, clock,
                   timed_out, policy, finished, selected, wk, dpc, ret>>

\* best_pick(&node, constant) on any node of the tree
CallBestPick ==
    /\ ~called.panicked
    /\ \E slot \in Slots(nodes) : \E o \in best_pick_on(nodes, slot) :
          /\ called' = [fn |-> "best_pick", exp |-> slot.exp, out |-> o[1],
                        panicked |-> FALSE]
          /\ nodes' = o[2]
    /\ UNCHANGED <<game, iterations, thread_count, time_limit, draw, ucb, clock,
                   timed_out, policy, finished, selected, wk, dpc, ret>>

\* Tree::select_from(node, constant) on any node of the tree
CallSelectFrom ==
    /\ ~called.panicked
    /\ \E slot \in Slots(nodes) : \E o \in select_from_on(nodes, slot) :
          /\ called' = [fn |-> "select_from", exp |-> slot.exp, out |-> o[1],
                        panicked |-> FALSE]
          /\ nodes' = o[2]
    /\ UNCHANGED <<game, iterations, thread_count, time_limit, draw, ucb, clock,
                   timed_out, policy, finished, selected, wk, dpc, ret>>

ContractNext ==
    \/ CallExpansion
    \/ CallBestPick
    \/ CallSelectFrom

ContractSpec == ContractInit /\ [][ContractNext]_vars

-----------------------------------------------------------------------------
(* The same search with every RwLock acquisition a step of its own.  A    *)
(* worker's record lists the guards it holds, innermost last.  The locks   *)
(* are the RwLock around each Expanded node and the two RwLocks inside it. *)
(* The RwLock around a Placeholder is only ever read, and is left out.     *)

\* the greatest budget of a search followed lock by lock
MaxLockIterations == 1

NodeLock(n) == [kind |-> "node", n |-> n]
ExploredLock(n) == [kind |-> "cached_fully_explored", n |-> n]
UcbLock(n) == [kind |-> "cached_ucb", n |-> n]

Guard(lock, mode) == [lock |-> lock, mode |-> mode]

Holds(w, lock, mode) == \E k \in DOMAIN wk[w].held : wk[w].held[k] = Guard(lock, mode)

\* RwLock: read() returns while no writer holds the lock, write() while
\* nobody holds it
CanRead(lock) == \A v \in Workers : ~Holds(v, lock, "write")
\* A write() that returns while readers still hold the lock
CanWriteBesideReaders(lock) == \A v \in Workers : ~Holds(v, lock, "write")

CanWrite(lock) == \A v \in Workers : ~Holds(v, lock, "read") /\ ~Holds(v, lock, "write")

CanLock(r) == IF r.mode = "read" THEN CanRead(r.lock) ELSE CanWrite(r.lock)

\* The blocking read() or write() worker w is at: during the selection the
\* one it has asked for, elsewhere the one its position in Tree::expansion,
\* Tree::iterate, Tree::propagate_reward or Node::visit calls next.
NextLock(w) ==
    LET l == wk[w]
    IN  CASE l.pc = "select" -> l.want
          [] l.pc = "expand" -> Guard(NodeLock(l.cur), "read")
          [] l.pc = "expand_state" -> Guard(NodeLock(l.cur), "read")
          [] l.pc = "expand_look" -> Guard(NodeLock(l.child), "read")
          [] l.pc = "insert" -> Guard(NodeLock(l.cur), "write")
          [] l.pc = "play_out" -> Guard(NodeLock(l.result[Len(l.result)]), "read")
          [] l.pc = "propagate" -> Guard(NodeLock(l.result[l.j - 1]), "read")
          [] l.pc = "propagate_node" -> Guard(NodeLock(l.result[l.j]), "write")
          [] l.pc = "visit" -> Guard(ExploredLock(l.result[l.j]), "write")
          [] OTHER -> NoLock

Granted(w) == NextLock(w) # NoLock /\ CanLock(NextLock(w))

\* another thread is in, or about to call, write() on the lock: a RwLock
\* that prefers writers makes new readers wait then
WriterWaiting(w, lock) ==
    \E v \in Workers \ {w} : NextLock(v) = Guard(lock, "write")

\* worker w is in a read() or write() that cannot return, whichever way the
\* RwLock treats readers that arrive while a writer waits
Blocked(w) ==
    LET r == NextLock(w)
    IN  /\ r # NoLock
        /\ \/ ~CanLock(r)
           \/ r.mode = "read" /\ WriterWaiting(w, r.lock)

Push(l, r) == [l EXCEPT !.held = Append(@, r), !.want = NoLock]
Pop(l) == [l EXCEPT !.held = SubSeq(@, 1, Len(@) - 1)]

ExpandedChildren(h, n) ==
    {h[n].children[a].id : a \in {x \in DOMAIN h[n].children : h[n].children[x].exp}}

\* A selection that reads again the node whose guard it holds
ReadAgainTargets(h, held) ==
    IF held = <<>>
    THEN {Guard(NodeLock(n), "read") : n \in DOMAIN h}
    ELSE LET top == held[Len(held)]
         IN  IF top.lock.kind = "node"
             THEN {Guard(NodeLock(c), "read") : c \in ExpandedChildren(h, top.lock.n)}
                    \cup {Guard(UcbLock(top.lock.n), "read"), top}
             ELSE {}

\* A selection that takes the locks of the nodes it walks for writing
WalkTargetsWriting(h, held) ==
    IF held = <<>>
    THEN {Guard(NodeLock(n), "write") : n \in DOMAIN h}
    ELSE LET top == held[Len(held)]
         IN  IF top.lock.kind = "node"
             THEN {Guard(NodeLock(c), "write") : c \in ExpandedChildren(h, top.lock.n)}
                    \cup {Guard(UcbLock(top.lock.n), "read")}
             ELSE {}

\* The read() calls a selection can make next.  Holding no guard it reads a
\* node of the tree (tree.rs 68-70, node.rs 288, 304, 314, 357); holding the
\* read guard of a child (node.rs 314) it reads one of that child's own
\* children in Node::fully_explored (node.rs 63), and so on down the tree,
\* or the child's cached_ucb (node.rs 153).
WalkTargets(h, held) ==
    IF held = <<>>
    THEN {Guard(NodeLock(n), "read") : n \in DOMAIN h}
    ELSE LET top == held[Len(held)]
         IN  IF top.lock.kind = "node"
             THEN {Guard(NodeLock(c), "read") : c \in ExpandedChildren(h, top.lock.n)}
                    \cup {Guard(UcbLock(top.lock.n), "read")}
             ELSE {}

\* The try_read() and try_write() calls a selection can make next, on the
\* caches of the node whose read guard it holds (node.rs 51, 69, 132)
TryTargets(held) ==
    IF held = <<>>
    THEN {}
    ELSE LET top == held[Len(held)]
         IN  IF top.lock.kind = "node"
             THEN {Guard(ExploredLock(top.lock.n), "read"),
                   Guard(ExploredLock(top.lock.n), "write"),
                   Guard(UcbLock(top.lock.n), "write")}
             ELSE {}

LockFrame == <<game, iterations, thread_count, time_limit, called, draw, ucb, clock, timed_out, policy,
               finished, selected, dpc, ret>>

\* the selection calls read()
WalkRequest(w) ==
    /\ dpc = "running"
    /\ wk[w].pc = "select"
    /\ wk[w].want = NoLock
    /\ \E r \in WalkTargets(nodes, wk[w].held) :
          wk' = [wk EXCEPT ![w].want = r]
    /\ UNCHANGED <<nodes, LockFrame>>

\* the read() of the selection returns
WalkAcquire(w) ==
    /\ dpc = "running"
    /\ wk[w].pc = "select"
    /\ Granted(w)
    /\ wk' = [wk EXCEPT ![w] = Push(@, wk[w].want)]
    /\ UNCHANGED <<nodes, LockFrame>>

\* a try_read() or try_write() of the selection succeeds (a failed one
\* changes nothing)
WalkTry(w) ==
    /\ dpc = "running"
    /\ wk[w].pc = "select"
    /\ wk[w].want = NoLock
    /\ \E r \in TryTargets(wk[w].held) :
          /\ CanLock(r)
          /\ wk' = [wk EXCEPT ![w] = Push(@, r)]
    /\ UNCHANGED <<nodes, LockFrame>>

\* the selection drops its innermost guard
WalkRelease(w) ==
    /\ dpc = "running"
    /\ wk[w].pc = "select"
    /\ wk[w].want = NoLock
    /\ wk[w].held # <<>>
    /\ wk' = [wk EXCEPT ![w] = Pop(@)]
    /\ UNCHANGED <<nodes, LockFrame>>

\* tree.rs 209-219: the selection returns, all its guards dropped
SelectDone(w) ==
    /\ wk[w].held = <<>>
    /\ wk[w].want = NoLock
    /\ Select(w)

\* tree.rs 118-125: cur_node.read() returns and the child under `action` is
\* taken from the map (cur_node is Expanded: a selection path leads through
\* Expanded nodes up to its last action)
ReadCur(w) ==
    LET l == wk[w]
        slot == nodes[l.cur].children[l.selection.path[l.i]]
    IN  /\ dpc = "running"
        /\ l.pc = "expand"
        /\ Granted(w)
        /\ wk' = [wk EXCEPT ![w] =
                     [Push(l, NextLock(w)) EXCEPT !.pc = "expand_child",
                                                  !.child = slot.id,
                                                  !.pw = slot.weight]]
        /\ UNCHANGED <<nodes, LockFrame>>

\* tree.rs 128-131: cur_node.read() returns again, for the state
ReadState(w) ==
    /\ dpc = "running"
    /\ wk[w].pc = "expand_state"
    /\ Granted(w)
    /\ wk' = [wk EXCEPT ![w] = [Push(@, NextLock(w)) EXCEPT !.pc = "expand_state_held"]]
    /\ UNCHANGED <<nodes, LockFrame>>

\* tree.rs 133-140: child_node.read() returns on an Expanded child
ReadChild(w) ==
    /\ dpc = "running"
    /\ wk[w].pc = "expand_look"
    /\ Granted(w)
    /\ wk' = [wk EXCEPT ![w] = [Push(@, NextLock(w)) EXCEPT !.pc = "expand_look_held"]]
    /\ UNCHANGED <<nodes, LockFrame>>

\* tree.rs 142-147: cur_node.write() returns and the expanded child is
\* inserted
WriteCur(w) ==
    LET l == wk[w]
        action == l.selection.path[l.i]
        expanded_child ==
            create_expanded_node(Execute(action, nodes[l.cur].state), l.pw)
    IN  /\ dpc = "running"
        /\ l.pc = "insert"
        /\ Granted(w)
        /\ nodes' = insert_child(nodes, l.cur, action, expanded_child)
        /\ wk' = [wk EXCEPT ![w] = [Push(l, NextLock(w)) EXCEPT !.pc = "insert_held"]]
        /\ UNCHANGED LockFrame

\* tree.rs 222-232: the read() on the last node of the expansion's result
\* returns; its guard lives until play_out has returned
ReadLast(w) ==
    LET l == wk[w]
    IN  /\ dpc = "running"
        /\ l.pc = "play_out"
        /\ Granted(w)
        /\ \E reward \in play_out(nodes[l.result[Len(l.result)]].state) :
              wk' = [wk EXCEPT ![w] =
                        [Push(l, NextLock(w)) EXCEPT !.pc = "play_out_held",
                                                     !.reward = reward]]
        /\ UNCHANGED <<nodes, LockFrame>>

\* tree.rs 190-197: previous_node.read() returns
ReadPrevious(w) ==
    /\ dpc = "running"
    /\ wk[w].pc = "propagate"
    /\ Granted(w)
    /\ wk' = [wk EXCEPT ![w] = [Push(@, NextLock(w)) EXCEPT !.pc = "propagate_prev"]]
    /\ UNCHANGED <<nodes, LockFrame>>

\* tree.rs 199-200 and node.rs 115: node.write() returns and Node::visit,
\* called under that guard, increments visit_count
WriteNode(w) ==
    LET l == wk[w]
        node == l.result[l.j]
    IN  /\ dpc = "running"
        /\ l.pc = "propagate_node"
        /\ Granted(w)
        /\ nodes' = [nodes EXCEPT ![node] = visit_counted(@)]
        /\ wk' = [wk EXCEPT ![w] = [Push(l, NextLock(w)) EXCEPT !.pc = "visit"]]
        /\ UNCHANGED LockFrame

\* node.rs 116-118, still under the node's write guard: value_sum is added
\* to and cached_fully_explored.write() returns
WriteCache(w) ==
    LET l == wk[w]
        node == l.result[l.j]
        previous_node == l.result[l.j - 1]
    IN  /\ dpc = "running"
        /\ l.pc = "visit"
        /\ Granted(w)
        /\ nodes' = [nodes EXCEPT ![node] =
                        visit_valued(@, RewardFor(nodes, previous_node, l.reward))]
        /\ wk' = [wk EXCEPT ![w] = [Push(l, NextLock(w)) EXCEPT !.pc = "visit_cache"]]
        /\ UNCHANGED LockFrame

\* where a worker goes on when the guard it took last goes out of scope
AfterDrop(l) ==
    CASE l.pc = "expand_child" -> [l EXCEPT !.pc = "expand_state"]
      [] l.pc = "expand_state_held" ->
             [l EXCEPT !.pc = IF l.child = 0 THEN "insert" ELSE "expand_look"]
      [] l.pc = "expand_look_held" ->
             AfterStep([l EXCEPT !.pc = "expand", !.i = @ + 1,
                                 !.result = Append(@, l.cur),
                                 !.cur = l.child, !.child = 0])
      [] l.pc = "insert_held" ->
             AfterStep([l EXCEPT !.pc = "expand", !.i = @ + 1,
                                 !.result = Append(@, l.cur),
                                 !.cur = 0, !.pw = NoWeight])
      [] l.pc = "play_out_held" -> [l EXCEPT !.pc = "propagate", !.j = 2]
      [] l.pc = "propagate_prev" -> [l EXCEPT !.pc = "propagate_node"]
      [] l.pc = "visit_cache" -> [l EXCEPT !.pc = "visit_done"]
      [] l.pc = "visit_done" ->
             IF l.j = Len(l.result)
             THEN [l EXCEPT !.pc = "count", !.result = <<>>, !.reward = <<>>, !.j = 0]
             ELSE [l EXCEPT !.pc = "propagate", !.j = @ + 1]

HoldingPositions ==
    {"expand_child", "expand_state_held", "expand_look_held", "insert_held",
     "play_out_held", "propagate_prev", "visit_cache", "visit_done"}

\* the guard taken last is dropped at the end of its block
Drop(w) ==
    /\ dpc = "running"
    /\ wk[w].pc \in HoldingPositions
    /\ wk' = [wk EXCEPT ![w] = AfterDrop(Pop(@))]
    /\ UNCHANGED <<nodes, LockFrame>>

LockGames == {"TwoPly", "LastMove"}

LockInit ==
    /\ Init
    /\ game \in LockGames
    /\ iterations <= MaxLockIterations

LockWorker(w) ==
    \/ WalkRequest(w)
    \/ WalkAcquire(w)
    \/ WalkTry(w)
    \/ WalkRelease(w)
    \/ SelectDone(w)
    \/ ReadCur(w)
    \/ ReadState(w)
    \/ ReadChild(w)
    \/ WriteCur(w)
    \/ ReadLast(w)
    \/ ReadPrevious(w)
    \/ WriteNode(w)
    \/ WriteCache(w)
    \/ Drop(w)
    \/ Count(w)

LockNext ==
    \/ SpawnAll
    \/ \E w \in Workers : LockWorker(w)
    \/ Finish

LockSpec == LockInit /\ [][LockNext]_vars

\* Every spawned thread is scheduled again and again, and so is the thread
\* of calculate_best_turn itself.
Driver == ShortCircuit \/ (\E w \in Workers : Spawn(w)) \/ Finish
DriverParallel == ShortCircuit \/ SpawnAll \/ Finish

FairSpec ==
    Spec /\ WF_vars(Driver) /\ \A w \in Workers : WF_vars(Worker(w))

FairParallelSpec ==
    ParallelSpec /\ WF_vars(DriverParallel) /\ \A w \in Workers : WF_vars(Worker(w))

FairLooseSpec ==
    LooseSpec /\ WF_vars(Driver) /\ \A w \in Workers : WF_vars(Worker(w))

-----------------------------------------------------------------------------
(* Properties *)

InitialRoot == create_expanded_node(InitialState(game), NoWeight)
InitialActions == DOMAIN InitialRoot.children

Returned == dpc = "returned"

\* C1: when the root built from the initial state has exactly one child,
\* calculate_best_turn returns that child's action at once: no worker ever
\* leaves idle, the counter of finished iterations stays 0, and the tree
\* keeps its unvisited root with nothing expanded below it.
C1_ShortCircuit ==
    Cardinality(InitialActions) = 1 =>
        /\ dpc \in {"start", "returned"}
        /\ \A w \in Workers : wk[w] = Idle
        /\ finished = 0
        /\ nodes = <<InitialRoot>>
        /\ Returned => ret \in InitialActions

C1_Witness ==
    /\ Returned
    /\ Cardinality(InitialActions) = 1
    /\ iterations = MaxIterations
    /\ thread_count = MaxThreads

Running(w) == w <= thread_count /\ wk[w].pc \notin {"idle", "done"}

C4_Terminates ==
    <>(Returned /\ ret \in InitialActions /\ \A w \in Workers : wk[w].pc \in {"idle", "done"})

C4_Witness ==
    /\ Returned
    /\ thread_count = MaxThreads
    /\ iterations = MaxIterations
    /\ finished > iterations
    /\ ~timed_out
    /\ \A w \in Workers : wk[w].pc = "done"

Searched == Cardinality(InitialActions) # 1

PlaceholderLeft ==
    \E n \in DOMAIN nodes : \E a \in DOMAIN nodes[n].children :
        ~nodes[n].children[a].exp

\* C5: on a tree that does not become fully explored (and without a time
\* limit) a single worker runs exactly `iterations` iterations, and T workers
\* together run at most iterations + T - 1.
C5_IterationCount ==
    (Returned /\ Searched /\ ~timed_out /\ PlaceholderLeft) =>
        /\ finished <= iterations + thread_count - 1
        /\ thread_count = 1 => finished = iterations

Stats(h) == [n \in DOMAIN h |-> <<h[n].visit_count, h[n].value_sum>>]

\* C6: an iteration that returns FullyExplored changes no node's visit_count
\* or value_sum, and the worker that ran it leaves its loop when it has
\* counted it, whatever is left of the budget; the search then returns one
\* of the root's actions.
C6_FullyExploredStops ==
    [][/\ \A w \in Workers :
            /\ (wk[w].pc = "select" /\ wk'[w].pc = "count") =>
                   /\ wk'[w].selection = FullyExplored
                   /\ Stats(nodes') = Stats(nodes)
            /\ (wk[w].pc = "count" /\ wk[w].selection.fully_explored
                  /\ wk'[w] # wk[w]) => wk'[w].pc = "done"
       /\ (Returned' /\ ~Returned) => ret' \in InitialActions]_vars

\* the search ended before the budget was met and without a time limit:
\* its worker left the loop on FullyExplored
C6_Witness ==
    /\ Returned
    /\ Searched
    /\ ~timed_out
    /\ finished = iterations
    /\ ~PlaceholderLeft

\* the reward of the root's child under `a` is terminal and gives the
\* root's actor strictly more than every other player
ProvenWin(h, a) ==
    LET slot == h[Root].children[a]
        actor == NextActor(h[Root].state)
    IN  /\ slot.exp
        /\ Terminal(h[slot.id].state)
        /\ actor.kind = "Player"
        /\ LET r == Reward(h[slot.id].state)
           IN  /\ actor.id + 1 \in DOMAIN r
               /\ \A k \in DOMAIN r \ {actor.id + 1} : r[k] < r[actor.id + 1]

RootVisits(a) == SlotVisitCount(nodes, nodes[Root].children[a])
RootValue(a) == SlotValueSum(nodes, nodes[Root].children[a])

\* C7: under MostVisits, when some root child is a proven winning move the
\* returned action is a proven winning move.
C7_WinningMoveReturned ==
    (Returned /\ policy = "MostVisits" /\ \E a \in RootKeys : ProvenWin(nodes, a)) =>
        ProvenWin(nodes, ret)

\* C8: under MostVisits, when no root child is a proven winning move the
\* returned action's child has the greatest visit_count of the root's
\* children.
C8_MostVisited ==
    (Returned /\ policy = "MostVisits" /\ \A a \in RootKeys : ~ProvenWin(nodes, a)) =>
        \A a \in RootKeys : RootVisits(a) <= RootVisits(ret)

\* C9: under Ucb0, when some root child has been visited the returned
\* action's child has been visited and has the greatest mean value
\* value_sum / visit_count of the visited children.
C9_MeanValue ==
    (Returned /\ policy = "Ucb0" /\ \E a \in RootKeys : RootVisits(a) > 0) =>
        /\ RootVisits(ret) > 0
        /\ \A a \in RootKeys :
              RootVisits(a) > 0 =>
                  RootValue(a) * RootVisits(ret) <= RootValue(ret) * RootVisits(a)

CarriedWeight(h, slot) == IF slot.exp THEN h[slot.id].weight ELSE slot.weight

HalfVisited(w, n) == wk[w].pc = "visit" /\ wk[w].result[wk[w].j] = n

C13_StopsAfterTimeLimit ==
    [][\A w \in Workers :
          (/\ time_limit.kind = "Some"
           /\ wk[w].pc = "count"
           /\ wk'[w].pc # "count"
           /\ clock > time_limit.d) => wk'[w].pc = "done"]_vars

\* an iteration has ended later than d after the search started, and the
\* worker is at the top of its loop again
C13_Overrun ==
    \E w \in Workers :
        /\ time_limit.kind = "Some"
        /\ wk[w].pc = "select"
        /\ finished > 0
        /\ wk[w].time_started > time_limit.d

\* C14: calculate_best_turn on a state that permits no action never returns
\* an action, and it does not hang: whichever policy was passed, the search
\* ends in a panic.
C14_NoActionPanics ==
    /\ [](InitialActions = {} => (~Returned /\ ret = NoAction))
    /\ (InitialActions = {}) ~> (dpc = "panicked" /\ policy \in Policies)

\* the search of a terminal initial state has panicked in the final policy,
\* after its worker counted one iteration that found the tree fully explored
C14_Witness ==
    /\ dpc = "panicked"
    /\ Terminal(InitialState(game))
    /\ InitialActions = {}
    /\ policy = "MostVisits"
    /\ finished = thread_count
    /\ selected = 0

\* the reward vector worker w is propagating has no entry for the player
\* acting at the parent of the node it visits next
RewardEntryMissing(w) ==
    LET l == wk[w]
        actor == NextActor(nodes[l.result[l.j - 1]].state)
    IN  /\ l.pc = "propagate"
        /\ actor.kind = "Player"
        /\ actor.id + 1 \notin DOMAIN l.reward

\* C15: when the play-out's reward vector has no entry for the player acting
\* at a parent node of the path, backpropagation aborts instead of updating
\* the child: no step of that worker changes a visit_count or a value_sum.
C15_ShortRewardAborts ==
    [][\A w \in Workers :
          (RewardEntryMissing(w) /\ wk'[w] # wk[w]) => Stats(nodes') = Stats(nodes)]_vars

\* a child of the root was visited although the reward had no entry for the
\* root's actor, and the search went on to return an action
C15_Visited ==
    /\ game = "ShortReward"
    /\ Returned
    /\ \E a \in RootKeys : RootVisits(a) > 0 /\ RootValue(a) = 0

\* the state reached from the initial state by the actions of `path`
StateAfter(path) == [game |-> game, path |-> path]

\* C16: the play-out of an iteration whose selection path is a1..ak starts
\* from the state of the node newly expanded at the end of that path, the
\* state reached by a1..ak, not from an ancestor's or the root's.
C16_PlayOutFromNewNode ==
    \A w \in Workers :
        wk[w].pc = "play_out" =>
            nodes[wk[w].result[Len(wk[w].result)]].state = StateAfter(wk[w].selection.path)

\* the iteration that expanded a, a won game of player 0, backpropagates a
\* reward no play-out from that state can give
C16_ForeignReward ==
    \E w \in Workers :
        /\ wk[w].pc = "propagate"
        /\ Terminal(StateAfter(wk[w].selection.path))
        /\ wk[w].reward \notin play_out(StateAfter(wk[w].selection.path))

\* the Expanded node reached from node n by the actions of `path`, 0 when a
\* Placeholder is on the way
RECURSIVE NodeAt(_, _, _)
NodeAt(h, n, path) ==
    IF path = <<>>
    THEN n
    ELSE LET slot == h[n].children[Head(path)]
         IN  IF slot.exp THEN NodeAt(h, slot.id, Tail(path)) ELSE 0

VisitsAt(h, path) ==
    IF NodeAt(h, Root, path) = 0 THEN 0 ELSE h[NodeAt(h, Root, path)].visit_count

\* an action of the initial state that wins the game for player 0 at once
ImmediateWin(a) ==
    /\ NextActor(InitialState(game)) = Player(0)
    /\ Terminal(StateAfter(<<a>>))
    /\ Reward(StateAfter(<<a>>)) = Win0

\* C17: when an iteration with selection path a1..ak is complete, every node
\* n1..nk of the path, the newly expanded leaf included, has been visited
\* in it (so each has at least one visit), with the reward of the player
\* acting at its parent; and after a search in which player 0 has an
\* immediate winning move, the root's child for that move, once expanded,
\* has a positive value_sum.
C17_PathVisited ==
    /\ \A w \in Workers :
          (wk[w].pc = "count" /\ ~wk[w].selection.fully_explored) =>
              \A m \in 1..Len(wk[w].selection.path) :
                  VisitsAt(nodes, SubSeq(wk[w].selection.path, 1, m)) >= 1
    /\ \A a \in RootKeys :
          (Returned /\ Searched /\ ImmediateWin(a) /\ nodes[Root].children[a].exp) =>
              RootValue(a) > 0

\* the search of TwoPly has spent its whole budget and left no Placeholder,
\* and the root's child for the winning move a has no visit and no value
C17_LeafNeverVisited ==
    /\ Returned
    /\ ~PlaceholderLeft
    /\ \E a \in RootKeys :
          ImmediateWin(a) /\ nodes[Root].children[a].exp
              /\ RootVisits(a) = 0 /\ RootValue(a) = 0

\* worker w takes a step of Tree::propagate_reward
Propagates(w) == wk[w].pc = "propagate" /\ wk'[w] # wk[w]

RECURSIVE LeadsToPlaceholder(_, _, _)
LeadsToPlaceholder(h, n, path) ==
    /\ path # <<>>
    /\ Head(path) \in DOMAIN h[n].children
    /\ LET slot == h[n].children[Head(path)]
       IN  IF Len(path) = 1
           THEN ~slot.exp
           ELSE slot.exp /\ LeadsToPlaceholder(h, slot.id, Tail(path))

RECURSIVE PlaceholderBelow(_, _)
PlaceholderBelow(h, n) ==
    \E a \in DOMAIN h[n].children :
        LET slot == h[n].children[a]
        IN  IF slot.exp THEN PlaceholderBelow(h, slot.id) ELSE TRUE

\* C20: with a single worker, a selection returns FullyExplored exactly when
\* no Placeholder can be reached from the root; otherwise it returns a path
\* that ends at one of the Placeholders, passing by the children whose
\* subtrees are fully explored.
C20_FullyExploredIffNoPlaceholder ==
    [][\A w \in Workers :
          (wk[w].pc = "select" /\ wk'[w].pc # "select") =>
              IF PlaceholderBelow(nodes, Root)
              THEN /\ wk'[w].pc = "expand"
                   /\ LeadsToPlaceholder(nodes, Root, wk'[w].selection.path)
              ELSE /\ wk'[w].pc = "count"
                   /\ wk'[w].selection = FullyExplored]_vars

\* a selection found the tree fully explored after the search had visited
\* the root twice
C20_Witness ==
    \E w \in Workers :
        /\ wk[w].pc = "count"
        /\ wk[w].selection = FullyExplored
        /\ ~PlaceholderBelow(nodes, Root)
        /\ nodes[Root].visit_count >= 2

\* Node::fully_explored without its cache, for the child in a slot
Explored(h, slot) == slot.exp /\ ~PlaceholderBelow(h, slot.id)

\* along `path` from node n, no child with a visit was chosen while a
\* sibling without a visit was not fully explored
RECURSIVE UnvisitedFirst(_, _, _)
UnvisitedFirst(h, n, path) ==
    \/ path = <<>>
    \/ LET children == h[n].children
           slot == children[Head(path)]
       IN  /\ SlotVisitCount(h, slot) > 0 =>
                  \A b \in DOMAIN children :
                      SlotVisitCount(h, children[b]) = 0 => Explored(h, children[b])
           /\ slot.exp => UnvisitedFirst(h, slot.id, Tail(path))

Front(path) == SubSeq(path, 1, Len(path) - 1)
Last(path) == path[Len(path)]

\* worker w takes a step of Tree::expansion
Expands(w) == wk[w].pc \in {"expand", "insert"} /\ wk'[w] # wk[w]

\* the node one Placeholder per permitted action, or per chance outcome with
\* its weight, and nothing else
FreshChildren(node) ==
    LET actor == NextActor(node.state)
    IN  /\ \A a \in DOMAIN node.children : ~node.children[a].exp
        /\ IF actor.kind = "Player"
           THEN /\ DOMAIN node.children = Range(PermittedActions(node.state))
                /\ \A a \in DOMAIN node.children : node.children[a].weight = NoWeight
           ELSE /\ DOMAIN node.children = {o[1] : o \in Range(actor.outcomes)}
                /\ \A o \in Range(actor.outcomes) : node.children[o[1]].weight = o[2]

\* C23: with a single worker, Tree::expansion of a selection path whose last
\* child is a Placeholder leaves in that slot an Expanded node whose state
\* is execute(last action, parent state), whose visit_count and value_sum
\* are 0, whose children are one Placeholder per permitted action (or per
\* chance outcome, with its weight) and which carries the Placeholder's
\* weight; no step of the expansion changes another slot of the tree or
\* the statistics of a node that existed.
C23_ExpansionInstalls ==
    [][\A w \in Workers :
          Expands(w) =>
              LET path == wk[w].selection.path
                  parent == NodeAt(nodes, Root, Front(path))
                  new == NodeAt(nodes', Root, path)
              IN  /\ \A n \in DOMAIN nodes :
                        /\ nodes'[n].visit_count = nodes[n].visit_count
                        /\ nodes'[n].value_sum = nodes[n].value_sum
                        /\ nodes'[n].state = nodes[n].state
                        /\ \A a \in DOMAIN nodes[n].children :
                              <<n, a>> # <<parent, Last(path)>> =>
                                  nodes'[n].children[a] = nodes[n].children[a]
                  /\ wk'[w].pc = "play_out" =>
                        /\ parent # 0 /\ new # 0
                        /\ ~nodes[parent].children[Last(path)].exp
                        /\ nodes'[new].state = Execute(Last(path), nodes[parent].state)
                        /\ nodes'[new].visit_count = 0
                        /\ nodes'[new].value_sum = 0
                        /\ FreshChildren(nodes'[new])
                        /\ nodes'[new].weight = nodes[parent].children[Last(path)].weight]_vars

\* an expansion has just installed the node of the chance outcome of weight 2
C23_Witness ==
    \E w \in Workers :
        /\ wk[w].pc = "play_out"
        /\ Len(wk[w].selection.path) = 2
        /\ NodeAt(nodes, Root, wk[w].selection.path) # 0
        /\ nodes[NodeAt(nodes, Root, wk[w].selection.path)].weight = 2

\* the actions a play-out may apply in state s: the permitted actions of a
\* Player, the listed outcomes of the game
Moves(s) ==
    IF NextActor(s).kind = "Player"
    THEN Range(PermittedActions(s))
    ELSE {o[1] : o \in Range(NextActor(s).outcomes)}

\* the terminal states reachable from s by such actions
TerminalsFrom(s) ==
    {t \in {[game |-> s.game, path |-> p] : p \in DOMAIN GameTable(s.game)} :
        /\ Terminal(t)
        /\ Len(t.path) >= Len(s.path)
        /\ SubSeq(t.path, 1, Len(s.path)) = s.path
        /\ \A k \in Len(s.path)..(Len(t.path) - 1) :
              t.path[k + 1] \in Moves([game |-> s.game, path |-> SubSeq(t.path, 1, k)])}

\* the state the play-out of worker w starts from
PlayOutState(w) == nodes[wk[w].result[Len(wk[w].result)]].state

\* C24: play_out(s) returns the reward vector of a terminal state reachable
\* from s by permitted actions at Player states and listed outcomes at
\* Chance states; when s is terminal it returns s.reward(), no action
\* applied; and it never modifies the tree.
C24_PlayOutReward ==
    [][\A w \in Workers :
          (wk[w].pc = "play_out" /\ wk'[w] # wk[w]) =>
              /\ wk'[w].reward \in {Reward(t) : t \in TerminalsFrom(PlayOutState(w))}
              /\ Terminal(PlayOutState(w)) => wk'[w].reward = Reward(PlayOutState(w))
              /\ nodes' = nodes]_vars

\* a play-out that started from a terminal state which permits an action
\* has returned that state's reward
C24_Witness ==
    \E w \in Workers :
        /\ wk[w].pc = "propagate"
        /\ Terminal(PlayOutState(w))
        /\ PermittedActions(PlayOutState(w)) # <<>>
        /\ wk[w].reward = Reward(PlayOutState(w))

\* the sum of the first i weights
Cumulative(items, i) == TotalWeight(SubSeq(items, 1, i))

\* the first item whose cumulative weight exceeds r
FirstExceeding(items, r) ==
    items[CHOOSE i \in DOMAIN items :
              /\ Cumulative(items, i) > r
              /\ \A k \in 1..(i - 1) : Cumulative(items, k) <= r][1]

\* C25: weighted_random over outcomes with positive weights maps every draw
\* r in [0, sum of weights) to the first outcome whose cumulative weight
\* exceeds r; exactly w_i of the draws select outcome i; every draw selects
\* an outcome and unreachable!() is never reached.
C25_WeightedRandom ==
    /\ draw.pc # "unreachable"
    /\ draw.pc = "returned" =>
          /\ draw.item = FirstExceeding(draw.items, draw.random)
          /\ draw.item \in {draw.items[i][1] : i \in DOMAIN draw.items}
    /\ draw.pc # "none" =>
          \A i \in DOMAIN draw.items :
              Cardinality({r \in 0..(TotalWeight(draw.items) - 1) :
                              weighted_random(draw.items, r) = draw.items[i][1]})
                  = draw.items[i][2]

\* weights 1 and 2: the draw 1 has selected the second outcome
C25_Witness ==
    /\ draw.pc = "returned"
    /\ draw.items = << <<"a", 1>>, <<"b", 2>> >>
    /\ draw.random = 1
    /\ draw.item = "b"

\* the state of the parent of a node that is not the root
ParentState(node) == [node.state EXCEPT !.path = Front(@)]

UnderChance(node) ==
    /\ node.state.path # <<>>
    /\ NextActor(ParentState(node)).kind = "GameAction"

ZeroUnderChance ==
    \A n \in DOMAIN nodes : UnderChance(nodes[n]) => nodes[n].value_sum = 0

CountedUnderChance ==
    \A w \in Workers :
        (/\ wk[w].pc = "propagate"
         /\ wk'[w] # wk[w]
         /\ UnderChance(nodes[wk[w].result[wk[w].j]]))
        => LET n == wk[w].result[wk[w].j]
           IN  /\ nodes'[n].visit_count = nodes[n].visit_count + 1
               /\ nodes'[n].value_sum = 0

\* C26: a node whose parent is a Chance node always has value_sum = 0,
\* whatever rewards were backpropagated through it, and each
\* backpropagation through it still increments its visit_count by 1.
C26_ZeroUnderChance == []ZeroUnderChance /\ [][CountedUnderChance]_vars

\* the node after the outcome a of Deal was visited: every play-out below
\* it ends in a win, with the rewards 2 and -2
C26_Witness ==
    /\ game = "Deal"
    /\ \E n \in DOMAIN nodes :
          /\ nodes[n].state.path = <<"a">>
          /\ UnderChance(nodes[n])
          /\ nodes[n].visit_count > 0
          /\ nodes[n].value_sum = 0

\* C27: a Chance Expanded node (the actor of its own state is a chance
\* actor) never has a reward added to its value_sum: its value_sum is 0 in
\* every reachable state.
C27_ChanceNodeZero ==
    \A n \in DOMAIN nodes : nodes[n].game_action => nodes[n].value_sum = 0

\* the chance node below the root of Dice, where player 1 moves, holds the
\* reward of player 1
C27_Credited ==
    /\ game = "Dice"
    /\ \E n \in DOMAIN nodes :
          /\ nodes[n].game_action
          /\ nodes[n].state.path = <<"a">>
          /\ NextActor(ParentState(nodes[n])) = Player(1)
          /\ nodes[n].value_sum # 0

\* the positions of the tree: the action paths from the root
Positions == DOMAIN GameTable(game)

InFlight(w) == wk[w].pc \notin {"idle", "select", "count", "done"}

RECURSIVE SumOfVisits(_, _, _)
SumOfVisits(h, n, rest) ==
    IF rest = {}
    THEN 0
    ELSE LET a == CHOOSE x \in rest : TRUE
         IN  SlotVisitCount(h, h[n].children[a]) + SumOfVisits(h, n, rest \ {a})

ChildrenVisits(h, n) == SumOfVisits(h, n, DOMAIN h[n].children)

\* C30: whenever no iteration is in flight, every Expanded node that has
\* been backpropagated through has
\* visit_count = (sum of its children's visit_count) + 1.
C30_VisitsAreChildrensPlusOne ==
    (\A w \in Workers : ~InFlight(w)) =>
        \A n \in DOMAIN nodes :
            nodes[n].visit_count > 0 =>
                nodes[n].visit_count = ChildrenVisits(nodes, n) + 1

\* two iterations have ended, each expanded a child of the root: the root
\* has two visits and its children none
C30_RootAhead ==
    /\ \A w \in Workers : ~InFlight(w)
    /\ nodes[Root].visit_count = 2
    /\ \E a, b \in DOMAIN nodes[Root].children :
          /\ a # b
          /\ nodes[Root].children[a].exp
          /\ nodes[Root].children[b].exp
    /\ ChildrenVisits(nodes, Root) = 0

\* every answer Node::fully_explored can give for the child in `slot` is b
Answers(h, slot, b) == \A o \in SlotFullyExplored(h, slot) : o[1] = b

\* C31: after any sequence of single-worker iterations, Node::fully_explored
\* (cached or freshly computed) returns true for an Expanded node if and
\* only if its state is terminal or all its children are Expanded and fully
\* explored, and false for a Placeholder; hence when it returns true for a
\* node it returns true for each of its children.
C31_FullyExploredMeaning ==
    (\A w \in Workers : ~InFlight(w)) =>
        \A n \in DOMAIN nodes :
            LET children == nodes[n].children
                below == \A a \in DOMAIN children :
                             children[a].exp /\ Answers(nodes, children[a], TRUE)
            IN  /\ \A o \in fully_explored(nodes, n) :
                      /\ o[1] <=> (Terminal(nodes[n].state) \/ below)
                      /\ o[1] => below
                /\ \A a \in DOMAIN children :
                      ~children[a].exp => Answers(nodes, children[a], FALSE)

\* between two iterations one node holds a cached true and a node with
\* children a cached false
C31_Witness ==
    /\ \A w \in Workers : ~InFlight(w)
    /\ \E n, m \in DOMAIN nodes :
          /\ nodes[n].cached_fully_explored = "True"
          /\ DOMAIN nodes[m].children # {}
          /\ nodes[m].cached_fully_explored = "False"

\* the nodes that are in the tree: those a path from the root leads to
InTree(n) == NodeAt(nodes, Root, nodes[n].state.path) = n

StartsIteration(w) == wk[w].pc = "select" /\ wk'[w].pc # "select"

\* C33: workers check the iteration counter before starting each iteration:
\* no iteration is started once the counter has reached `iterations`, and
\* with iterations = 0 the tree keeps only its root, with all statistics 0.
C33_CheckedBeforeIteration ==
    [][/\ \A w \in Workers : StartsIteration(w) => finished < iterations
       /\ iterations = 0 => nodes' = nodes]_vars

\* with a budget of 0 the search has ended with a second node in the tree
\* and a visit of the root
C33_RanWithoutBudget ==
    /\ iterations = 0
    /\ \A w \in Workers : wk[w].pc \in {"idle", "done"}
    /\ Len(nodes) > 1
    /\ nodes[Root].visit_count > 0

\* the score a recomputation gives for node n from the statistics stored in
\* its cached_ucb
Recomputed(n) ==
    IF nodes[Root].game_action
    THEN Score(1, ucb.cache[n].visit_count, SlotWeight(nodes, ExpandedSlot(n)),
               ucb.cache[n].parent_visit_count)
    ELSE Score(ucb.cache[n].value_sum, ucb.cache[n].visit_count, 1,
               ucb.cache[n].parent_visit_count)

C35_WeightOverVisits ==
    (ucb.pc = "sorted" /\ nodes[Root].game_action) =>
        \A i, j \in DOMAIN ucb.ucbs :
            i < j =>
                LET si == nodes[Root].children[ucb.ucbs[i][1]]
                    sj == nodes[Root].children[ucb.ucbs[j][1]]
                    vi == SlotVisitCount(nodes, si)
                    vj == SlotVisitCount(nodes, sj)
                IN  /\ vj = 0 => vi = 0
                    /\ (vi > 0 /\ vj > 0) =>
                           SlotWeight(nodes, si) * vj >= SlotWeight(nodes, sj) * vi
                    /\ (vi > 0 /\ vi = vj) => SlotWeight(nodes, si) >= SlotWeight(nodes, sj)

\* at a second call of best_pick both children have one visit and the one
\* with the larger weight is ranked first
C35_Witness ==
    /\ ucb.pc = "sorted"
    /\ ucb.calls = 2
    /\ nodes[Root].game_action
    /\ Len(ucb.ucbs) = 2
    /\ LET first == nodes[Root].children[ucb.ucbs[1][1]]
           second == nodes[Root].children[ucb.ucbs[2][1]]
       IN  /\ SlotVisitCount(nodes, first) = 1
           /\ SlotVisitCount(nodes, second) = 1
           /\ SlotWeight(nodes, first) > SlotWeight(nodes, second)

\* the node worker w is modifying: the parent it inserts a child into
\* (tree.rs 142-147) or the node of the path it visits (tree.rs 199-204)
Modified(w) ==
    IF wk[w].pc \in {"insert", "insert_held"}
    THEN wk[w].cur
    ELSE wk[w].result[wk[w].j]

\* every guard worker w holds beside the write guard held[k] of a node, and
\* the lock it is asking for, belong to that same node, the one it modifies
WritesOneNode(w) ==
    \A k \in DOMAIN wk[w].held :
        (wk[w].held[k].lock.kind = "node" /\ wk[w].held[k].mode = "write") =>
            /\ wk[w].held[k].lock.n = Modified(w)
            /\ \A m \in DOMAIN wk[w].held : wk[w].held[m].lock.n = Modified(w)
            /\ NextLock(w) # NoLock => NextLock(w).lock.n = Modified(w)

\* the selection of worker w holds, and asks for, node locks for reading only
SelectsReading(w) ==
    wk[w].pc = "select" =>
        /\ \A k \in DOMAIN wk[w].held :
              wk[w].held[k].lock.kind = "node" => wk[w].held[k].mode = "read"
        /\ (wk[w].want # NoLock /\ wk[w].want.lock.kind = "node") =>
              wk[w].want.mode = "read"

C37_ContractViolationsAbort ==
    /\ []((called.fn = "expansion" /\ called.exp) => called.panicked)
    /\ []((called.fn \in {"best_pick", "select_from"} /\ ~called.exp) => called.panicked)
    /\ [][called'.panicked => nodes' = nodes]_vars

\* select_from called on a Placeholder has returned Selection::FullyExplored
\* and the test goes on
C37_PlaceholderSelected ==
    /\ called.fn = "select_from"
    /\ ~called.exp
    /\ ~called.panicked
    /\ called.out = FullyExplored

\* the root's child under `a` is a finished game in which no player has
\* more than every other one
TiedChild(h, a) ==
    LET slot == h[Root].children[a]
    IN  /\ slot.exp
        /\ Terminal(h[slot.id].state)
        /\ LET r == Reward(h[slot.id].state)
           IN  \A i \in DOMAIN r : \E k \in DOMAIN r \ {i} : r[k] >= r[i]

\* C38: the winning-move test of MostVisits accepts a terminal root child
\* only when its reward gives the root's actor strictly more than every
\* other player: a drawn child is no winning move, whether player 0 or
\* player 1 is to move, and is returned only as the most visited child.
C38_DrawIsNoWin ==
    /\ \A a \in RootKeys :
          IsWinningMove(nodes, nodes[Root].children[a]) => ProvenWin(nodes, a)
    /\ (Returned /\ policy = "MostVisits" /\ TiedChild(nodes, ret)) =>
          \A a \in RootKeys : RootVisits(a) <= RootVisits(ret)

\* with player 1 to move MostVisits has returned a drawn child that passes
\* the winning-move test, although a sibling has more visits
C38_DrawReturnedAsWin ==
    /\ Returned
    /\ policy = "MostVisits"
    /\ NextActor(nodes[Root].state) = Player(1)
    /\ TiedChild(nodes, ret)
    /\ IsWinningMove(nodes, nodes[Root].children[ret])
    /\ \E a \in RootKeys : RootVisits(a) > RootVisits(ret)

====
